---------------------------- MODULE Spec2Model ----------------------------
(***************************************************************************)
(* State-machine model of the Multi-Session Containers background script   *)
(* (unnamed/part_001) and its storage layer (src/js/storage.js).           *)
(*                                                                         *)
(* JavaScript runs one callback at a time; handlers interleave only at     *)
(* their awaits.  A task of the model is one handler invocation, its pc    *)
(* names the await it is suspended at, and one action step performs the    *)
(* awaited host operation (storage get/set, rule-engine update, tabs.get)  *)
(* together with the synchronous code that follows it up to the next       *)
(* await.  An await that starts no host operation is not a yield point.    *)
(***************************************************************************)
EXTENDS Integers, Sequences, FiniteSets, Bags, TLC

\* ------------------------------------------------------------------ bounds
NumTabs == 2
MaxTasks == 2
MaxEvents == 4
MaxStoreOps == 3
MaxNow == 6

\* ------------------------------------------------------- program constants
RuleBlock == 100
FirstRuleId == 1
MAX_RULES == 5000

Tabs == 1..NumTabs
InitialTabs == {1}
DEFAULT_SESSIONS == <<"default", "personal", "work", "shopping", "banking">>
SessionIds == {"default", "personal", "work"}
NavUrls == {"https://a.com/"}

VARIABLES
  sessions,        \* chrome.storage.local 'sessions' (session ids, in order)
  tabSessions,     \* chrome.storage.local 'tabSessions': tabId -> binding
  sessionCookies,  \* chrome.storage.local 'sessionCookies'
  ruleIdCounter,   \* chrome.storage.local 'ruleIdCounter'
  tabCache,        \* the in-memory Map tabId -> {sessionId, ruleIds, domains}
  sessionRules,    \* the rules held by chrome.declarativeNetRequest
  engineRejects,   \* the engine turns addRules calls down (see AddRules)
  liveTabs,        \* the tabs the browser has open
  tabUrl,          \* tab.url as chrome.tabs.get reports it
  nextTabId,       \* the id the browser gives the next tab it opens
  now,             \* Date.now() / 1000
  tasks,           \* bag of handler invocations suspended at an await
  events           \* number of handler invocations started so far

vars == <<sessions, tabSessions, sessionCookies, ruleIdCounter, tabCache,
          sessionRules, engineRejects, liveTabs, tabUrl, nextTabId, now, tasks,
          events>>

storeVars == <<sessions, tabSessions, sessionCookies, ruleIdCounter>>
browserVars == <<engineRejects, liveTabs, tabUrl, nextTabId, now>>

\* --------------------------------------------------------- JS object maps
EmptyMap == [k \in {} |-> 0]
Has(m, k) == k \in DOMAIN m
Put(m, k, v) == [x \in (DOMAIN m) \cup {k} |-> IF x = k THEN v ELSE m[x]]
Del(m, k) == [x \in (DOMAIN m) \ {k} |-> m[x]]
Range(s) == {s[i] : i \in DOMAIN s}

\* new URL(url).hostname; "" stands for the TypeError it throws
Hostname(url) ==
  CASE url = "https://a.com/" -> "a.com"
    [] url = "https://b.a.com/" -> "b.a.com"
    [] url = "https://c.org/" -> "c.org"
    [] OTHER -> ""

UrlParses(url) == Hostname(url) # ""

\* ------------------------------------------------------------ storage.js
\* domainMatches(requestDomain, cookieDomain)
EndsWith(s, suffix) ==
  /\ Len(suffix) <= Len(s)
  /\ SubSeq(s, Len(s) - Len(suffix) + 1, Len(s)) = suffix

\* a startsWith that finds no prefix
StartsWithNothing(s, prefix) == FALSE

StartsWith(s, prefix) ==
  /\ Len(prefix) <= Len(s)
  /\ SubSeq(s, 1, Len(prefix)) = prefix

\* a rule that knows no leading dot: string equality only
domainMatchesExact(requestDomain, cookieDomain) ==
  requestDomain = cookieDomain

domainMatches(requestDomain, cookieDomain) ==
  IF requestDomain = "" \/ cookieDomain = "" THEN FALSE
  ELSE IF StartsWith(cookieDomain, ".")
       THEN \/ requestDomain = SubSeq(cookieDomain, 2, Len(cookieDomain))
            \/ EndsWith(requestDomain, cookieDomain)
       ELSE requestDomain = cookieDomain

\* getSessionCookies(sessionId) on a snapshot of the 'sessionCookies' key.
\* A session's jar is the sequence of its records in the enumeration order
\* of the nested {domain: {key: cookie}} objects.
getSessionCookies(data, sessionId) ==
  IF Has(data, sessionId) THEN data[sessionId] ELSE <<>>

\* getSessionCookiesForDomain(sessionId, domain)
getSessionCookiesForDomain(data, sessionId, domain) ==
  SelectSeq(getSessionCookies(data, sessionId),
            LAMBDA c : domainMatches(domain, c.domain))

\* getTabInfo(tabId) / getTabSession(tabId) on a snapshot of 'tabSessions'
getTabInfo(data, tabId) ==
  IF Has(data, tabId) THEN data[tabId]
  ELSE [sessionId |-> "default", ruleIds |-> <<>>]

getTabSession(data, tabId) == getTabInfo(data, tabId).sessionId

\* ------------------------------------------------------------ background
\* expirationDate is a number of seconds, null or NaN; !c.expirationDate
Num(n) == [t |-> "number", n |-> n]
Null == [t |-> "null", n |-> 0]
NaN == [t |-> "NaN", n |-> 0]
Falsy(e) == e.t # "number" \/ e.n = 0
Greater(e, x) == e.t = "number" /\ e.n > x

RECURSIVE JoinPairs(_)
JoinPairs(cs) ==
  IF Len(cs) = 0 THEN ""
  ELSE IF Len(cs) = 1 THEN Head(cs).name \o "=" \o Head(cs).value
  ELSE Head(cs).name \o "=" \o Head(cs).value \o "; " \o JoinPairs(Tail(cs))

\* cookies.filter(c => !c.expirationDate || c.expirationDate > now)
HeaderRecords(data, sessionId, domain, time) ==
  SelectSeq(getSessionCookiesForDomain(data, sessionId, domain),
            LAMBDA c : \/ Falsy(c.expirationDate)
                       \/ Greater(c.expirationDate, time))

\* a header joined from the live matching records of every session
buildHeaderOfEverySession(data, sessionId, domain, time) ==
  JoinPairs(HeaderRecords(data, "personal", domain, time)
            \o HeaderRecords(data, "work", domain, time))

\* buildCookieHeader(sessionId, domain), given the snapshot its get returned
buildCookieHeader(data, sessionId, domain, time) ==
  JoinPairs(HeaderRecords(data, sessionId, domain, time))

\* a request rule that sets the Cookie header whatever its value
CookieRuleAlwaysSet(baseRuleId, tabId, cookieHeader) ==
  [id |-> baseRuleId, priority |-> 1, tabIds |-> {tabId},
   requestHeaders |->
     <<[header |-> "Cookie", operation |-> "remove", value |-> ""],
       [header |-> "Cookie", operation |-> "set", value |-> cookieHeader]>>,
   responseHeaders |-> <<>>]

\* the two rules createRulesForTab pushes
CookieRule(baseRuleId, tabId, cookieHeader) ==
  [id |-> baseRuleId, priority |-> 1, tabIds |-> {tabId},
   requestHeaders |->
     <<[header |-> "Cookie", operation |-> "remove", value |-> ""]>>
     \o (IF cookieHeader # ""
         THEN <<[header |-> "Cookie", operation |-> "set",
                 value |-> cookieHeader]>>
         ELSE <<>>),
   responseHeaders |-> <<>>]

SetCookieRule(baseRuleId, tabId) ==
  [id |-> baseRuleId + 1, priority |-> 1, tabIds |-> {tabId},
   requestHeaders |-> <<>>,
   responseHeaders |->
     <<[header |-> "Set-Cookie", operation |-> "remove", value |-> ""]>>]

\* a synthesis that leaves the response rule out
RulesForRequestOnly(baseRuleId, tabId, cookieHeader) ==
  <<CookieRule(baseRuleId, tabId, cookieHeader)>>

RulesFor(baseRuleId, tabId, cookieHeader) ==
  <<CookieRule(baseRuleId, tabId, cookieHeader),
    SetCookieRule(baseRuleId, tabId)>>

\* The engine applies rule r to a request of tab tabId to host: the
\* condition names the tab and every resource type, and no url or domain
RuleMatches(r, tabId, host) == tabId \in r.tabIds

\* rules.map(r => r.id)
RuleIdsOf(rules) == [i \in DOMAIN rules |-> rules[i].id]

\* ---------------------------------------------------- JS string methods
\* s.indexOf(ch) + 1 (0 when ch does not occur)
RECURSIVE IndexFrom(_, _, _)
IndexFrom(s, ch, i) ==
  IF i > Len(s) THEN 0
  ELSE IF SubSeq(s, i, i) = ch THEN i
  ELSE IndexFrom(s, ch, i + 1)

IndexOf(s, ch) == IndexFrom(s, ch, 1)

\* s.split(ch)
RECURSIVE Split(_, _)
Split(s, ch) ==
  LET i == IndexOf(s, ch)
  IN IF i = 0 THEN <<s>>
     ELSE <<SubSeq(s, 1, i - 1)>> \o Split(SubSeq(s, i + 1, Len(s)), ch)

\* s.trim()
RECURSIVE Trim(_)
Trim(s) ==
  IF Len(s) = 0 THEN s
  ELSE IF SubSeq(s, 1, 1) = " " THEN Trim(SubSeq(s, 2, Len(s)))
  ELSE IF SubSeq(s, Len(s), Len(s)) = " " THEN Trim(SubSeq(s, 1, Len(s) - 1))
  ELSE s

LowerChar(c) ==
  CASE c = "A" -> "a" [] c = "B" -> "b" [] c = "C" -> "c" [] c = "D" -> "d"
    [] c = "E" -> "e" [] c = "F" -> "f" [] c = "G" -> "g" [] c = "H" -> "h"
    [] c = "I" -> "i" [] c = "J" -> "j" [] c = "K" -> "k" [] c = "L" -> "l"
    [] c = "M" -> "m" [] c = "N" -> "n" [] c = "O" -> "o" [] c = "P" -> "p"
    [] c = "Q" -> "q" [] c = "R" -> "r" [] c = "S" -> "s" [] c = "T" -> "t"
    [] c = "U" -> "u" [] c = "V" -> "v" [] c = "W" -> "w" [] c = "X" -> "x"
    [] c = "Y" -> "y" [] c = "Z" -> "z" [] OTHER -> c

\* s.toLowerCase()
RECURSIVE ToLowerCase(_)
ToLowerCase(s) ==
  IF Len(s) = 0 THEN s
  ELSE LowerChar(SubSeq(s, 1, 1)) \o ToLowerCase(SubSeq(s, 2, Len(s)))

DigitValue(c) ==
  CASE c = "0" -> 0 [] c = "1" -> 1 [] c = "2" -> 2 [] c = "3" -> 3
    [] c = "4" -> 4 [] c = "5" -> 5 [] c = "6" -> 6 [] c = "7" -> 7
    [] c = "8" -> 8 [] c = "9" -> 9 [] OTHER -> -1

\* the value of the longest digit prefix of s, continuing from acc
RECURSIVE DigitsPrefix(_, _)
DigitsPrefix(s, acc) ==
  IF Len(s) = 0 \/ DigitValue(SubSeq(s, 1, 1)) < 0 THEN acc
  ELSE DigitsPrefix(SubSeq(s, 2, Len(s)),
                    10 * acc + DigitValue(SubSeq(s, 1, 1)))

StartsWithDigit(s) == Len(s) > 0 /\ DigitValue(SubSeq(s, 1, 1)) >= 0

\* parseInt(s): leading blanks, an optional sign, then decimal digits
ParseInt(s) ==
  LET t == Trim(s)
      signed == Len(t) > 0 /\ SubSeq(t, 1, 1) \in {"-", "+"}
      body == IF signed THEN SubSeq(t, 2, Len(t)) ELSE t
  IN IF ~StartsWithDigit(body) THEN NaN
     ELSE IF signed /\ SubSeq(t, 1, 1) = "-"
          THEN Num(0 - DigitsPrefix(body, 0))
          ELSE Num(DigitsPrefix(body, 0))

\* new Date(s).getTime() / 1000 for the date strings of the model; any
\* other string gives an Invalid Date, whose getTime() is NaN
DateSeconds(s) ==
  CASE s = "Thu, 01 Jan 1970 00:00:00 GMT" -> Num(0)
    [] s = "Thu, 01 Jan 1970 00:00:05 GMT" -> Num(5)
    [] s = "Thu, 01 Jan 1970 00:01:00 GMT" -> Num(60)
    [] OTHER -> NaN

\* x + y on JS numbers
Plus(x, y) == IF x.t = "number" /\ y.t = "number" THEN Num(x.n + y.n) ELSE NaN

\* ------------------------------------------------------- parseSetCookie
AttrName(attr) ==
  LET eqIdx == IndexOf(attr, "=")
  IN IF eqIdx > 1 THEN ToLowerCase(SubSeq(attr, 1, eqIdx - 1))
     ELSE ToLowerCase(attr)

AttrValue(attr) ==
  LET eqIdx == IndexOf(attr, "=")
  IN IF eqIdx > 1 THEN SubSeq(attr, eqIdx + 1, Len(attr)) ELSE ""

\* one turn of the for loop over the attributes
ApplyAttribute(cookie, attr, time) ==
  LET attrName == AttrName(attr)
      attrValue == AttrValue(attr)
  IN CASE attrName = "domain" ->
            [cookie EXCEPT !.domain = IF StartsWith(attrValue, ".")
                                      THEN attrValue ELSE "." \o attrValue]
       [] attrName = "path" ->
            [cookie EXCEPT !.path = IF attrValue = "" THEN "/" ELSE attrValue]
       [] attrName = "expires" ->
            [cookie EXCEPT !.expirationDate = DateSeconds(attrValue)]
       [] attrName = "max-age" ->
            [cookie EXCEPT !.expirationDate =
                              Plus(Num(time), ParseInt(attrValue))]
       [] attrName = "secure" -> [cookie EXCEPT !.secure = TRUE]
       [] attrName = "httponly" -> [cookie EXCEPT !.httpOnly = TRUE]
       [] attrName = "samesite" ->
            [cookie EXCEPT !.sameSite = IF attrValue = "" THEN "Lax"
                                        ELSE attrValue]
       [] OTHER -> cookie

RECURSIVE ApplyAttributes(_, _, _)
ApplyAttributes(cookie, attributes, time) ==
  IF Len(attributes) = 0 THEN cookie
  ELSE ApplyAttributes(ApplyAttribute(cookie, Head(attributes), time),
                       Tail(attributes), time)

\* parseSetCookie(header, url) for a url that parses (it returns null else)
parseSetCookie(header, url, time) ==
  LET raw == Split(header, ";")
      parts == [i \in DOMAIN raw |-> Trim(raw[i])]
      nameValue == Head(parts)
      eqIndex == IndexOf(nameValue, "=")
      cookie == [name |-> SubSeq(nameValue, 1, eqIndex - 1),
                 value |-> SubSeq(nameValue, eqIndex + 1, Len(nameValue)),
                 domain |-> Hostname(url), path |-> "/", secure |-> FALSE,
                 httpOnly |-> FALSE, sameSite |-> "Lax",
                 expirationDate |-> Null]
  IN ApplyAttributes(cookie, Tail(parts), time)

\* ------------------------------------------------------ setSessionCookie
\* `${cookie.name}|${cookie.path || '/'}`
CookieKey(c) == c.name \o "|" \o (IF c.path = "" THEN "/" ELSE c.path)

SetMax(S) == CHOOSE m \in S : \A x \in S : x <= m

\* sessionCookies[sessionId][domain][cookieKey] = cookie on a jar: an
\* existing key keeps its place, a new key comes last in its domain's
\* object, a new domain comes last
UpsertCookie(jar, c) ==
  LET hit == {i \in DOMAIN jar : /\ jar[i].domain = c.domain
                                  /\ CookieKey(jar[i]) = CookieKey(c)}
      same == {i \in DOMAIN jar : jar[i].domain = c.domain}
  IN IF hit # {} THEN [jar EXCEPT ![CHOOSE i \in hit : TRUE] = c]
     ELSE IF same = {} THEN Append(jar, c)
     ELSE SubSeq(jar, 1, SetMax(same)) \o <<c>>
          \o SubSeq(jar, SetMax(same) + 1, Len(jar))

\* the table setSessionCookie writes back, from the snapshot it read
setSessionCookie(data, sessionId, cookie) ==
  Put(data, sessionId, UpsertCookie(getSessionCookies(data, sessionId), cookie))

\* a clear that empties the jar of every session
clearEverySession(data, sessionId) == [k \in DOMAIN data |-> <<>>]

\* the table clearSessionCookies writes back, from the snapshot it read (it
\* writes nothing when the session has no jar)
clearSessionCookies(data, sessionId) ==
  IF Has(data, sessionId) THEN Put(data, sessionId, <<>>) ELSE data

\* ----------------------------------------------- declarativeNetRequest
\* an engine that ignores removeRuleIds
KeepRules(rules, ids) == rules

\* updateSessionRules({removeRuleIds}): ids that are not installed are
\* ignored
RemoveRules(rules, ids) == {r \in rules : r.id \notin Range(ids)}

\* updateSessionRules({addRules}) is all or nothing: it rejects when an id
\* is already installed or the session-rule cap would be exceeded
AddAccepted(rules, add) ==
  /\ \A i \in DOMAIN add : \A r \in rules : r.id # add[i].id
  /\ Cardinality(rules) + Len(add) <= MAX_RULES

RulesOfTab(t) == {r \in sessionRules : t \in r.tabIds}
IdsOfTab(t) == {r.id : r \in RulesOfTab(t)}

\* ------------------------------------------------------------------ tasks
NoCookie ==
  [name |-> "", value |-> "", domain |-> "", path |-> "", secure |-> FALSE,
   httpOnly |-> FALSE, sameSite |-> "", expirationDate |-> Null]

\* One handler invocation: the handler (kind), the await it is suspended at
\* (pc) and its local variables
Task(kind, pc, tabId, sessionId, url) ==
  [kind |-> kind, pc |-> pc, tabId |-> tabId, sessionId |-> sessionId,
   url |-> url, ruleIds |-> <<>>, nextId |-> 0, cookieHeader |-> "",
   cookie |-> NoCookie, jar |-> "", alias |-> FALSE, addError |-> FALSE,
   sent |-> FALSE, queue |-> <<>>,
   tdata |-> EmptyMap, cdata |-> EmptyMap, sdata |-> <<>>]

InFlight == BagToSet(tasks)
NumInFlight == BagCardinality(tasks)

RECURSIVE BagOfSeq(_)
BagOfSeq(s) ==
  IF Len(s) = 0 THEN EmptyBag ELSE SetToBag({Head(s)}) (+) BagOfSeq(Tail(s))

\* the bag of the images f[x] of the tasks x of `bag`
RECURSIVE BagMap(_, _)
BagMap(f, bag) ==
  IF BagToSet(bag) = {} THEN EmptyBag
  ELSE LET x == CHOOSE y \in BagToSet(bag) : TRUE
       IN SetToBag({f[x]}) (+) BagMap(f, bag (-) SetToBag({x}))

\* tabCache.set(tabId, ...) and tabCache.delete(tabId) put another object (or
\* none) in the Map: a handler that still holds the old object (alias) no
\* longer sees writes made through the Map
Detach(bag, tabId) ==
  BagMap([t \in BagToSet(bag) |->
            IF t.tabId = tabId /\ t.alias
            THEN [t EXCEPT !.alias = FALSE] ELSE t], bag)

CacheInfo(sessionId, ruleIds, domains) ==
  [sessionId |-> sessionId, ruleIds |-> ruleIds, domains |-> domains]

\* tabCache.get(tabId) || { sessionId: 'default', ruleIds: [], domains }
CachedOrDefault(tabId) ==
  IF Has(tabCache, tabId) THEN tabCache[tabId]
  ELSE CacheInfo("default", <<>>, {})

\* ------------------------------------------------------ applyRulesForTab
\* applyRulesForTab from "If default session" on, once the old rules are
\* gone: `bag` holds the other tasks, t this invocation, `rules` the engine
AfterRemoveOld(bag, t, rules) ==
  /\ sessionRules' = rules
  /\ IF t.sessionId = "default"
     THEN /\ tabCache' = Put(tabCache, t.tabId, CacheInfo("default", <<>>, {}))
          /\ tasks' = Detach(bag, t.tabId)
                       (+) SetToBag({[t EXCEPT !.pc = "sti_get",
                                               !.ruleIds = <<>>]})
     ELSE IF ~UrlParses(t.url)
     THEN \* createRulesForTab returned []: nothing to add
          /\ tabCache' = Put(tabCache, t.tabId,
                             CacheInfo(t.sessionId, <<>>, {""}))
          /\ tasks' = Detach(bag, t.tabId)
                       (+) SetToBag({[t EXCEPT !.pc = "sti_get",
                                               !.ruleIds = <<>>]})
     ELSE \* createRulesForTab awaits buildCookieHeader's storage read
          /\ tabCache' = tabCache
          /\ tasks' = bag (+) SetToBag({[t EXCEPT !.pc = "bch_get"]})

\* applyRulesForTab(tabId, sessionId, url) up to its first await
applyRulesForTab(bag, t) ==
  LET tabInfo == CachedOrDefault(t.tabId)
  IN IF Len(tabInfo.ruleIds) > 0
     THEN /\ tasks' = bag (+) SetToBag({[t EXCEPT !.pc = "removeOld",
                                                  !.ruleIds = tabInfo.ruleIds]})
          /\ UNCHANGED <<tabCache, sessionRules>>
     ELSE AfterRemoveOld(bag, t, sessionRules)

Without(self) == tasks (-) SetToBag({self})

\* await updateSessionRules({removeRuleIds: tabInfo.ruleIds})
RemoveOldRules(self) ==
  /\ self.pc = "removeOld"
  /\ AfterRemoveOld(Without(self), self,
                    RemoveRules(sessionRules, self.ruleIds))
  /\ UNCHANGED <<storeVars, browserVars, events>>

\* buildCookieHeader: the storage read returns, the header is built and
\* getNextRuleId issues its read
BuildCookieHeader(self) ==
  /\ self.pc = "bch_get"
  /\ tasks' = Without(self) (+) SetToBag({
        [self EXCEPT !.pc = "rid_get",
                     !.cookieHeader =
                        buildCookieHeader(sessionCookies, self.sessionId,
                                          Hostname(self.url), now)]})
  /\ UNCHANGED <<storeVars, browserVars, events, tabCache, sessionRules>>

\* getNextRuleId: const data = await this.get('ruleIdCounter')
GetNextRuleIdRead(self) ==
  /\ self.pc = "rid_get"
  /\ tasks' = Without(self) (+) SetToBag({
        [self EXCEPT !.pc = "rid_set",
                     !.nextId = IF ruleIdCounter = 0 THEN FirstRuleId
                                ELSE ruleIdCounter]})
  /\ UNCHANGED <<storeVars, browserVars, events, tabCache, sessionRules>>

\* getNextRuleId: await this.set({ruleIdCounter: nextId + 100}); the rules
\* are built and updateSessionRules({addRules}) is issued
GetNextRuleIdWrite(self) ==
  /\ self.pc = "rid_set"
  /\ ruleIdCounter' = self.nextId + RuleBlock
  /\ tasks' = Without(self) (+) SetToBag({[self EXCEPT !.pc = "addRules"]})
  /\ UNCHANGED <<sessions, tabSessions, sessionCookies, browserVars, events,
                 tabCache, sessionRules>>

\* await updateSessionRules({addRules: rules}) (a rejection is caught and
\* logged), then the cache is set and setTabInfo issues its read.  The
\* engine rejects a call that AddAccepted rules out; with engineRejects it
\* may reject any call, as it does for a rule it finds invalid or at a cap
\* reached through rules the model does not hold.
AddRules(self) ==
  /\ self.pc = "addRules"
  /\ \E verdict \in (IF engineRejects THEN BOOLEAN ELSE {TRUE}) :
     LET rules == RulesFor(self.nextId, self.tabId, self.cookieHeader)
         accepted == verdict /\ AddAccepted(sessionRules, rules)
     IN /\ sessionRules' = IF accepted THEN sessionRules \cup Range(rules)
                           ELSE sessionRules
        /\ tabCache' = Put(tabCache, self.tabId,
                           CacheInfo(self.sessionId, RuleIdsOf(rules),
                                     {Hostname(self.url)}))
        /\ tasks' = Detach(Without(self), self.tabId)
                     (+) SetToBag({[self EXCEPT
                            !.pc = "sti_get",
                            !.ruleIds = RuleIdsOf(rules),
                            !.addError = ~accepted]})
  /\ UNCHANGED <<storeVars, browserVars, events>>

\* setTabInfo: const data = await this.get('tabSessions')
SetTabInfoRead(self) ==
  /\ self.pc = "sti_get"
  /\ tasks' = Without(self) (+) SetToBag({[self EXCEPT !.pc = "sti_set",
                                                       !.tdata = tabSessions]})
  /\ UNCHANGED <<storeVars, browserVars, events, tabCache, sessionRules>>

\* setTabInfo: await this.set({tabSessions}); the handler returns
SetTabInfoWrite(self) ==
  /\ self.pc = "sti_set"
  /\ tabSessions' = Put(self.tdata, self.tabId,
                        [sessionId |-> self.sessionId,
                         ruleIds |-> self.ruleIds])
  /\ tasks' = Without(self)
  /\ UNCHANGED <<sessions, sessionCookies, ruleIdCounter, browserVars, events,
                 tabCache, sessionRules>>

\* ------------------------------------------------------------- handlers
CanStart(n) == events + n <= MaxEvents /\ NumInFlight + n <= MaxTasks

\* webNavigation.onBeforeNavigate (main frame)
OnBeforeNavigate(tabId, url) ==
  /\ CanStart(1)
  /\ tabId \in liveTabs
  /\ events' = events + 1
  /\ tabUrl' = [tabUrl EXCEPT ![tabId] = url]
  /\ IF Has(tabCache, tabId)
     THEN applyRulesForTab(tasks, Task("navigate", "", tabId,
                                       tabCache[tabId].sessionId, url))
     ELSE /\ tasks' = tasks (+) SetToBag({Task("navigate", "nav_getTabSession",
                                               tabId, "default", url)})
          /\ UNCHANGED <<tabCache, sessionRules>>
  /\ UNCHANGED <<storeVars, engineRejects, liveTabs, nextTabId, now>>

\* onBeforeNavigate: await Storage.getTabSession(details.tabId)
NavigateGetTabSession(self) ==
  /\ self.pc = "nav_getTabSession"
  /\ applyRulesForTab(Without(self),
        [self EXCEPT !.sessionId = getTabSession(tabSessions, self.tabId)])
  /\ UNCHANGED <<storeVars, browserVars, events>>

\* The browser sends the navigation's request while the onBeforeNavigate
\* handler is still running: it does not wait for the promise the listener
\* returns.  (A request that leaves after the handler has returned needs
\* no step of its own.)
DispatchRequest(self) ==
  /\ self.kind = "navigate"
  /\ ~self.sent
  /\ tasks' = Without(self) (+) SetToBag({[self EXCEPT !.sent = TRUE]})
  /\ UNCHANGED <<storeVars, browserVars, events, tabCache, sessionRules>>

\* handleMessage 'setTabSession' up to await chrome.tabs.get(tabId)
SetTabSession(tabId, sessionId) ==
  /\ CanStart(1)
  /\ tabId \in liveTabs
  /\ events' = events + 1
  /\ tasks' = tasks (+) SetToBag({Task("setTabSession", "sts_tabget", tabId,
                                       sessionId, "")})
  /\ UNCHANGED <<storeVars, browserVars, tabCache, sessionRules>>

\* 'setTabSession': chrome.tabs.get returns (or throws: 'Tab not found')
SetTabSessionTabGet(self) ==
  /\ self.pc = "sts_tabget"
  /\ IF self.tabId \in liveTabs
     THEN applyRulesForTab(Without(self),
                           [self EXCEPT !.url = tabUrl[self.tabId]])
     ELSE /\ tasks' = Without(self)
          /\ UNCHANGED <<tabCache, sessionRules>>
  /\ UNCHANGED <<storeVars, browserVars, events>>

\* ------------------------------------------------------- tabs.onRemoved
\* onRemoved from tabCache.delete on: removeTabSession issues its read
AfterRemoveTab(bag, t, rules) ==
  /\ sessionRules' = rules
  /\ tabCache' = Del(tabCache, t.tabId)
  /\ tasks' = Detach(bag, t.tabId) (+) SetToBag({[t EXCEPT !.pc = "rts_get"]})

\* tabs.onRemoved: the browser closes the tab and the handler starts
OnRemoved(tabId) ==
  /\ CanStart(1)
  /\ tabId \in liveTabs
  /\ events' = events + 1
  /\ liveTabs' = liveTabs \ {tabId}
  /\ LET t == Task("removed", "", tabId, "", "")
     IN IF Has(tabCache, tabId) /\ Len(tabCache[tabId].ruleIds) > 0
        THEN /\ tasks' = tasks (+) SetToBag({
                   [t EXCEPT !.pc = "rm_remove",
                             !.ruleIds = tabCache[tabId].ruleIds]})
             /\ UNCHANGED <<tabCache, sessionRules>>
        ELSE AfterRemoveTab(tasks, t, sessionRules)
  /\ UNCHANGED <<storeVars, engineRejects, tabUrl, nextTabId, now>>

\* onRemoved: await updateSessionRules({removeRuleIds}) (errors ignored)
RemovedRemoveRules(self) ==
  /\ self.pc = "rm_remove"
  /\ AfterRemoveTab(Without(self), self,
                    RemoveRules(sessionRules, self.ruleIds))
  /\ UNCHANGED <<storeVars, browserVars, events>>

\* removeTabSession: const data = await this.get('tabSessions')
RemoveTabSessionRead(self) ==
  /\ self.pc = "rts_get"
  /\ tasks' = IF Has(tabSessions, self.tabId)
              THEN Without(self) (+) SetToBag({
                     [self EXCEPT !.pc = "rts_set",
                                  !.tdata = Del(tabSessions, self.tabId)]})
              ELSE Without(self)
  /\ UNCHANGED <<storeVars, browserVars, events, tabCache, sessionRules>>

\* removeTabSession: await this.set({tabSessions: data.tabSessions})
RemoveTabSessionWrite(self) ==
  /\ self.pc = "rts_set"
  /\ tabSessions' = self.tdata
  /\ tasks' = Without(self)
  /\ UNCHANGED <<sessions, sessionCookies, ruleIdCounter, browserVars, events,
                 tabCache, sessionRules>>

\* ------------------------------------------------------- tabs.onCreated
\* a handler that binds every new tab to 'default'
AfterInheritIgnoringOpener(bag, t) ==
  /\ tabCache' = Put(tabCache, t.tabId, CacheInfo("default", <<>>, {}))
  /\ tasks' = Detach(bag, t.tabId)
               (+) SetToBag({[t EXCEPT !.pc = "sti_get", !.ruleIds = <<>>,
                                       !.sessionId = "default"]})

\* onCreated from tabCache.set on: setTabInfo(tab.id, sessionId, [])
AfterInherit(bag, t) ==
  /\ tabCache' = Put(tabCache, t.tabId, CacheInfo(t.sessionId, <<>>, {}))
  /\ tasks' = Detach(bag, t.tabId)
               (+) SetToBag({[t EXCEPT !.pc = "sti_get", !.ruleIds = <<>>]})

\* tabs.onCreated: the browser opens tab nextTabId from `opener` (0: none)
OnCreated(opener) ==
  /\ CanStart(1)
  /\ nextTabId \in Tabs
  /\ opener \in liveTabs \cup {0}
  /\ events' = events + 1
  /\ liveTabs' = liveTabs \cup {nextTabId}
  /\ nextTabId' = nextTabId + 1
  /\ LET t == Task("created", "", nextTabId, "default", "")
     IN IF opener = 0
        THEN AfterInherit(tasks, t)
        ELSE IF Has(tabCache, opener)
        THEN AfterInherit(tasks,
                          [t EXCEPT !.sessionId = tabCache[opener].sessionId])
        ELSE /\ tasks' = tasks (+) SetToBag({
                   [t EXCEPT !.pc = "cr_getTabSession", !.nextId = opener]})
             /\ tabCache' = tabCache
  /\ UNCHANGED <<storeVars, engineRejects, tabUrl, now, sessionRules>>

\* onCreated: sessionId = await Storage.getTabSession(tab.openerTabId)
CreatedGetTabSession(self) ==
  /\ self.pc = "cr_getTabSession"
  /\ AfterInherit(Without(self),
        [self EXCEPT !.sessionId = getTabSession(tabSessions, self.nextId),
                     !.nextId = 0])
  /\ UNCHANGED <<storeVars, browserVars, events, sessionRules>>

\* --------------------------------------------- 'openInSession' / menu click
\* handleMessage 'openInSession' and contextMenus.onClicked up to
\* await chrome.tabs.create({url}): the browser opens tab nextTabId on url
\* (no opener) and queues its tabs.onCreated event
OpenInSession(sessionId, url) ==
  /\ CanStart(2)
  /\ nextTabId \in Tabs
  /\ events' = events + 2
  /\ liveTabs' = liveTabs \cup {nextTabId}
  /\ tabUrl' = [tabUrl EXCEPT ![nextTabId] = url]
  /\ nextTabId' = nextTabId + 1
  /\ tasks' = tasks
        (+) SetToBag({Task("openInSession", "ois_create", nextTabId,
                           sessionId, url)})
        (+) SetToBag({Task("created", "cr_event", nextTabId, "default", "")})
  /\ UNCHANGED <<storeVars, engineRejects, now, tabCache, sessionRules>>

\* chrome.tabs.create resolves: tabCache.set(tab.id, { sessionId, ... })
\* and Storage.setTabInfo(tab.id, sessionId, []) issues its read
OpenInSessionCreated(self) ==
  /\ self.pc = "ois_create"
  /\ AfterInherit(Without(self), self)
  /\ UNCHANGED <<storeVars, browserVars, events, sessionRules>>

\* the queued tabs.onCreated event of a tab opened without opener is
\* delivered: sessionId stays 'default'
CreatedEvent(self) ==
  /\ self.pc = "cr_event"
  /\ AfterInherit(Without(self), self)
  /\ UNCHANGED <<storeVars, browserVars, events, sessionRules>>

\* ------------------------------------------- webRequest.onHeadersReceived
\* the Set-Cookie header values a response of the model may carry
SetCookieHeaders == {"sid=1", "tok=2; Domain=a.com"}
Responses ==
  {<<h>> : h \in SetCookieHeaders}
    \cup {<<g, h>> : g \in {"sid=1"}, h \in {"tok=2; Domain=a.com"}}

\* onHeadersReceived: one Storage.setSessionCookie call per Set-Cookie
\* header, each issuing its storage read before the listener returns
OnHeadersReceived(tabId, headers) ==
  /\ CanStart(Len(headers))
  /\ tabId \in liveTabs
  /\ UrlParses(tabUrl[tabId])
  /\ Has(tabCache, tabId)
  /\ tabCache[tabId].sessionId # "default"
  /\ events' = events + Len(headers)
  /\ tasks' = tasks (+) BagOfSeq(
        [i \in DOMAIN headers |->
           [Task("capture", "ssc_get", tabId, tabCache[tabId].sessionId,
                 tabUrl[tabId])
              EXCEPT !.cookie = parseSetCookie(headers[i], tabUrl[tabId],
                                               now),
                     !.jar = tabCache[tabId].sessionId]])
  /\ UNCHANGED <<storeVars, browserVars, tabCache, sessionRules>>

\* The page of a tab sends a request: it leaves under the session the tab
\* is bound to (whose rules rewrite it) and its response is outstanding
IssueRequest(tabId) ==
  /\ CanStart(1)
  /\ tabId \in liveTabs
  /\ UrlParses(tabUrl[tabId])
  /\ events' = events + 1
  /\ tasks' = tasks (+) SetToBag({
        Task("request", "rq_wait", tabId, CachedOrDefault(tabId).sessionId,
             tabUrl[tabId])})
  /\ UNCHANGED <<storeVars, browserVars, tabCache, sessionRules>>

\* The response of an outstanding request arrives: onHeadersReceived runs
\* with details.url the url of the request, and reads the tab's binding
\* from the cache as it is now
ResponseArrives(self, headers) ==
  /\ self.pc = "rq_wait"
  /\ CanStart(Len(headers) - 1)
  /\ events' = events + Len(headers) - 1
  /\ IF Has(tabCache, self.tabId) /\ tabCache[self.tabId].sessionId # "default"
     THEN tasks' = Without(self) (+) BagOfSeq(
            [i \in DOMAIN headers |->
               [Task("capture", "ssc_get", self.tabId,
                     tabCache[self.tabId].sessionId, self.url)
                  EXCEPT !.cookie = parseSetCookie(headers[i], self.url, now),
                         !.jar = tabCache[self.tabId].sessionId]])
     ELSE tasks' = Without(self)
  /\ UNCHANGED <<storeVars, browserVars, tabCache, sessionRules>>

\* setSessionCookie: const data = await this.get('sessionCookies')
SetSessionCookieRead(self) ==
  /\ self.pc = "ssc_get"
  /\ tasks' = Without(self) (+) SetToBag({
        [self EXCEPT !.pc = "ssc_set",
                     !.cdata = setSessionCookie(sessionCookies, self.sessionId,
                                                self.cookie)]})
  /\ UNCHANGED <<storeVars, browserVars, events, tabCache, sessionRules>>

\* setSessionCookie: await this.set({sessionCookies}), then
\* refreshTabCookies(details.tabId) up to await chrome.tabs.get(tabId); the
\* callback that refreshes keeps the listener's cookie and session in scope
SetSessionCookieWrite(self) ==
  /\ self.pc = "ssc_set"
  /\ sessionCookies' = self.cdata
  /\ tasks' = IF Has(tabCache, self.tabId)
                 /\ tabCache[self.tabId].sessionId # "default"
              THEN Without(self) (+) SetToBag({
                     [self EXCEPT !.kind = "refresh", !.pc = "rf_tabget",
                                  !.sessionId = tabCache[self.tabId].sessionId,
                                  !.alias = TRUE, !.cdata = EmptyMap]})
              ELSE Without(self)
  /\ UNCHANGED <<sessions, tabSessions, ruleIdCounter, browserVars, events,
                 tabCache, sessionRules>>

\* refreshTabCookies: chrome.tabs.get returns (or throws, which is caught);
\* tabInfo.sessionId is read from the object fetched before the await
RefreshTabGet(self) ==
  /\ self.pc = "rf_tabget"
  /\ IF self.tabId \in liveTabs /\ tabUrl[self.tabId] # ""
     THEN applyRulesForTab(Without(self),
                           [self EXCEPT !.url = tabUrl[self.tabId],
                                        !.alias = FALSE])
     ELSE /\ tasks' = Without(self)
          /\ UNCHANGED <<tabCache, sessionRules>>
  /\ UNCHANGED <<storeVars, browserVars, events>>

\* ------------------------------------------ handleMessage 'deleteSession'
\* Storage.deleteSession up to its first await; deleteSession('default')
\* returns false at once and the handler goes on to updateContextMenus
DeleteSession(sessionId) ==
  /\ CanStart(1)
  /\ events' = events + 1
  /\ tasks' = tasks (+) SetToBag({
        Task("deleteSession",
             IF sessionId = "default" THEN "ds_menus" ELSE "ds_getSessions",
             0, sessionId, "")})
  /\ UNCHANGED <<storeVars, browserVars, tabCache, sessionRules>>

\* let sessions = await this.getSessions(), filtered
DeleteSessionGetSessions(self) ==
  /\ self.pc = "ds_getSessions"
  /\ tasks' = Without(self) (+) SetToBag({
        [self EXCEPT !.pc = "ds_setSessions",
                     !.sdata = SelectSeq(sessions,
                                         LAMBDA id : id # self.sessionId)]})
  /\ UNCHANGED <<storeVars, browserVars, events, tabCache, sessionRules>>

\* await this.set({sessions})
DeleteSessionSetSessions(self) ==
  /\ self.pc = "ds_setSessions"
  /\ sessions' = self.sdata
  /\ tasks' = Without(self) (+) SetToBag({
        [self EXCEPT !.pc = "ds_getCookies", !.sdata = <<>>]})
  /\ UNCHANGED <<tabSessions, sessionCookies, ruleIdCounter, browserVars,
                 events, tabCache, sessionRules>>

\* const data = await this.get('sessionCookies'); the write is skipped
\* when the session has no jar
DeleteSessionGetCookies(self) ==
  /\ self.pc = "ds_getCookies"
  /\ tasks' = Without(self) (+) SetToBag({
        IF Has(sessionCookies, self.sessionId)
        THEN [self EXCEPT !.pc = "ds_setCookies",
                          !.cdata = Del(sessionCookies, self.sessionId)]
        ELSE [self EXCEPT !.pc = "ds_getTabs"]})
  /\ UNCHANGED <<storeVars, browserVars, events, tabCache, sessionRules>>

\* await this.set({sessionCookies: data.sessionCookies})
DeleteSessionSetCookies(self) ==
  /\ self.pc = "ds_setCookies"
  /\ sessionCookies' = self.cdata
  /\ tasks' = Without(self) (+) SetToBag({
        [self EXCEPT !.pc = "ds_getTabs", !.cdata = EmptyMap]})
  /\ UNCHANGED <<sessions, tabSessions, ruleIdCounter, browserVars, events,
                 tabCache, sessionRules>>

\* a loop that moves every tab to default
MoveAllToDefault(bindings, sessionId) ==
  [t \in DOMAIN bindings |-> [bindings[t] EXCEPT !.sessionId = "default"]]

\* the for loop of Storage.deleteSession over tabData.tabSessions
MoveToDefault(bindings, sessionId) ==
  [t \in DOMAIN bindings |->
     IF bindings[t].sessionId = sessionId
     THEN [bindings[t] EXCEPT !.sessionId = "default"]
     ELSE bindings[t]]

\* const tabData = await this.get('tabSessions'), tabs moved to default
DeleteSessionGetTabs(self) ==
  /\ self.pc = "ds_getTabs"
  /\ tasks' = Without(self) (+) SetToBag({
        [self EXCEPT !.pc = "ds_setTabs",
                     !.tdata = MoveToDefault(tabSessions, self.sessionId)]})
  /\ UNCHANGED <<storeVars, browserVars, events, tabCache, sessionRules>>

\* await this.set({tabSessions}); Storage.deleteSession returns true and
\* updateContextMenus starts
DeleteSessionSetTabs(self) ==
  /\ self.pc = "ds_setTabs"
  /\ tabSessions' = self.tdata
  /\ tasks' = Without(self) (+) SetToBag({
        [self EXCEPT !.pc = "ds_menus", !.tdata = EmptyMap]})
  /\ UNCHANGED <<sessions, sessionCookies, ruleIdCounter, browserVars, events,
                 tabCache, sessionRules>>

\* await updateContextMenus() returns; the loop over tabCache writes
\* info.sessionId = 'default' into the cached objects themselves, so a
\* handler holding one of them sees the write
DeleteSessionUpdateTabs(self) ==
  /\ self.pc = "ds_menus"
  /\ tabCache' = MoveToDefault(tabCache, self.sessionId)
  /\ tasks' = BagMap([t \in BagToSet(Without(self)) |->
                        IF t.alias /\ t.sessionId = self.sessionId
                        THEN [t EXCEPT !.sessionId = "default"] ELSE t],
                     Without(self))
  /\ UNCHANGED <<storeVars, browserVars, events, sessionRules>>

\* ------------------------------------ handleMessage 'clearSessionCookies'
\* Storage.clearSessionCookies up to its first await
ClearSessionCookies(sessionId) ==
  /\ CanStart(1)
  /\ events' = events + 1
  /\ tasks' = tasks (+) SetToBag({Task("clearSessionCookies", "csc_get", 0,
                                       sessionId, "")})
  /\ UNCHANGED <<storeVars, browserVars, tabCache, sessionRules>>

\* the loop over tabCache after the clear: one refreshTabCookies call, not
\* awaited, per tab bound to the session, each up to its
\* await chrome.tabs.get(tabId); the handler returns
RefreshesOf(sessionId) ==
  SetToBag({[Task("refresh", "rf_tabget", t, sessionId, "")
               EXCEPT !.alias = TRUE] :
            t \in {u \in DOMAIN tabCache :
                     /\ tabCache[u].sessionId = sessionId
                     /\ sessionId # "default"}})

\* const data = await this.get('sessionCookies'); the write is skipped
\* when the session has no jar
ClearSessionCookiesRead(self) ==
  /\ self.pc = "csc_get"
  /\ tasks' = IF Has(sessionCookies, self.sessionId)
              THEN Without(self) (+) SetToBag({
                     [self EXCEPT !.pc = "csc_set",
                                  !.cdata = clearSessionCookies(sessionCookies,
                                                                self.sessionId)]})
              ELSE Without(self) (+) RefreshesOf(self.sessionId)
  /\ UNCHANGED <<storeVars, browserVars, events, tabCache, sessionRules>>

\* await this.set({sessionCookies}), then the loop over tabCache
ClearSessionCookiesWrite(self) ==
  /\ self.pc = "csc_set"
  /\ sessionCookies' = self.cdata
  /\ tasks' = Without(self) (+) RefreshesOf(self.sessionId)
  /\ UNCHANGED <<sessions, tabSessions, ruleIdCounter, browserVars, events,
                 tabCache, sessionRules>>

\* ------------------------------------------------------------- startup
\* the ids of the set S in ascending order
RECURSIVE Ascending(_)
Ascending(S) ==
  IF S = {} THEN <<>>
  ELSE LET m == CHOOSE x \in S : \A y \in S : x <= y
       IN <<m>> \o Ascending(S \ {m})

\* The idle service worker is stopped and started again: the script runs
\* from the top with an empty tabCache (storage and the session rules
\* live on in the browser) and issues chrome.tabs.query({})
Restart ==
  /\ CanStart(1)
  /\ tasks = EmptyBag
  /\ events' = events + 1
  /\ tabCache' = EmptyMap
  /\ tasks' = SetToBag({Task("startup", "init_query", 0, "", "")})
  /\ UNCHANGED <<storeVars, browserVars, sessionRules>>

\* chrome.tabs.query({}) returns; the loop awaits Storage.getTabSession
\* for its first tab
StartupQuery(self) ==
  /\ self.pc = "init_query"
  /\ tasks' = IF liveTabs = {} THEN Without(self)
              ELSE Without(self) (+) SetToBag({
                     [self EXCEPT !.pc = "init_get",
                                  !.queue = Ascending(liveTabs)]})
  /\ UNCHANGED <<storeVars, browserVars, events, tabCache, sessionRules>>

\* const sessionId = await Storage.getTabSession(tab.id);
\* tabCache.set(tab.id, { sessionId, ruleIds: [], domains: new Set() })
StartupGetTabSession(self) ==
  /\ self.pc = "init_get"
  /\ LET tabId == Head(self.queue)
     IN /\ tabCache' = Put(tabCache, tabId,
                           CacheInfo(getTabSession(tabSessions, tabId),
                                     <<>>, {}))
        /\ tasks' = IF Len(self.queue) = 1
                    THEN Detach(Without(self), tabId)
                    ELSE Detach(Without(self), tabId) (+) SetToBag({
                           [self EXCEPT !.queue = Tail(self.queue)]})
  /\ UNCHANGED <<storeVars, browserVars, events, sessionRules>>

\* --------------------------------------------------------- specification
\* The extension freshly installed and started, one tab open on a page
InitState ==
  /\ sessions = DEFAULT_SESSIONS
  /\ tabSessions = EmptyMap
  /\ sessionCookies = EmptyMap
  /\ ruleIdCounter = FirstRuleId
  /\ tabCache = [t \in InitialTabs |-> CacheInfo("default", <<>>, {})]
  /\ sessionRules = {}
  /\ liveTabs = InitialTabs
  /\ tabUrl = [t \in Tabs |-> IF t \in InitialTabs THEN "https://a.com/" ELSE ""]
  /\ nextTabId = 2
  /\ now = 1
  /\ tasks = EmptyBag
  /\ events = 0

Init == InitState /\ engineRejects = FALSE

InitRejecting == InitState /\ engineRejects = TRUE

Next ==
  \/ \E t \in Tabs, u \in NavUrls : OnBeforeNavigate(t, u)
  \/ \E t \in Tabs, s \in SessionIds : SetTabSession(t, s)
  \/ \E t \in Tabs : OnRemoved(t)
  \/ \E o \in Tabs \cup {0} : OnCreated(o)
  \/ \E t \in Tabs, h \in Responses : OnHeadersReceived(t, h)
  \/ \E s \in SessionIds : DeleteSession(s)
  \/ \E s \in SessionIds, u \in NavUrls : OpenInSession(s, u)
  \/ \E s \in SessionIds : ClearSessionCookies(s)
  \/ Restart
  \/ \E self \in InFlight : StartupQuery(self)
  \/ \E self \in InFlight : StartupGetTabSession(self)
  \/ \E self \in InFlight : NavigateGetTabSession(self)
  \/ \E self \in InFlight : DispatchRequest(self)
  \/ \E self \in InFlight : SetTabSessionTabGet(self)
  \/ \E self \in InFlight : RemoveOldRules(self)
  \/ \E self \in InFlight : BuildCookieHeader(self)
  \/ \E self \in InFlight : GetNextRuleIdRead(self)
  \/ \E self \in InFlight : GetNextRuleIdWrite(self)
  \/ \E self \in InFlight : AddRules(self)
  \/ \E self \in InFlight : SetTabInfoRead(self)
  \/ \E self \in InFlight : SetTabInfoWrite(self)
  \/ \E self \in InFlight : RemovedRemoveRules(self)
  \/ \E self \in InFlight : RemoveTabSessionRead(self)
  \/ \E self \in InFlight : RemoveTabSessionWrite(self)
  \/ \E self \in InFlight : CreatedGetTabSession(self)
  \/ \E self \in InFlight : OpenInSessionCreated(self)
  \/ \E self \in InFlight : CreatedEvent(self)
  \/ \E self \in InFlight : SetSessionCookieRead(self)
  \/ \E self \in InFlight : SetSessionCookieWrite(self)
  \/ \E self \in InFlight : RefreshTabGet(self)
  \/ \E self \in InFlight : DeleteSessionGetSessions(self)
  \/ \E self \in InFlight : DeleteSessionSetSessions(self)
  \/ \E self \in InFlight : DeleteSessionGetCookies(self)
  \/ \E self \in InFlight : DeleteSessionSetCookies(self)
  \/ \E self \in InFlight : DeleteSessionGetTabs(self)
  \/ \E self \in InFlight : DeleteSessionSetTabs(self)
  \/ \E self \in InFlight : DeleteSessionUpdateTabs(self)
  \/ \E self \in InFlight : ClearSessionCookiesRead(self)
  \/ \E self \in InFlight : ClearSessionCookiesWrite(self)

Spec == Init /\ [][Next]_vars

\* Navigation, session switch and cookie capture on the tabs open at
\* startup: the events that install rules
NextInstalls ==
  \/ \E t \in Tabs, u \in NavUrls : OnBeforeNavigate(t, u)
  \/ \E t \in Tabs, s \in SessionIds : SetTabSession(t, s)
  \/ \E t \in Tabs, h \in Responses : OnHeadersReceived(t, h)
  \/ \E self \in InFlight : SetTabSessionTabGet(self)
  \/ \E self \in InFlight : RemoveOldRules(self)
  \/ \E self \in InFlight : BuildCookieHeader(self)
  \/ \E self \in InFlight : GetNextRuleIdRead(self)
  \/ \E self \in InFlight : GetNextRuleIdWrite(self)
  \/ \E self \in InFlight : AddRules(self)
  \/ \E self \in InFlight : SetTabInfoRead(self)
  \/ \E self \in InFlight : SetTabInfoWrite(self)
  \/ \E self \in InFlight : SetSessionCookieRead(self)
  \/ \E self \in InFlight : SetSessionCookieWrite(self)
  \/ \E self \in InFlight : RefreshTabGet(self)

SpecInstalls == Init /\ [][NextInstalls]_vars

\* The installing events, with an engine that may reject any install
SpecRejecting == InitRejecting /\ [][NextInstalls]_vars

\* The installing events, and tabs being closed
NextTabs ==
  \/ \E t \in Tabs, u \in NavUrls : OnBeforeNavigate(t, u)
  \/ \E t \in Tabs, s \in SessionIds : SetTabSession(t, s)
  \/ \E t \in Tabs, h \in Responses : OnHeadersReceived(t, h)
  \/ \E t \in Tabs : OnRemoved(t)
  \/ \E self \in InFlight : SetTabSessionTabGet(self)
  \/ \E self \in InFlight : RemoveOldRules(self)
  \/ \E self \in InFlight : BuildCookieHeader(self)
  \/ \E self \in InFlight : GetNextRuleIdRead(self)
  \/ \E self \in InFlight : GetNextRuleIdWrite(self)
  \/ \E self \in InFlight : AddRules(self)
  \/ \E self \in InFlight : SetTabInfoRead(self)
  \/ \E self \in InFlight : SetTabInfoWrite(self)
  \/ \E self \in InFlight : SetSessionCookieRead(self)
  \/ \E self \in InFlight : SetSessionCookieWrite(self)
  \/ \E self \in InFlight : RefreshTabGet(self)
  \/ \E self \in InFlight : RemovedRemoveRules(self)
  \/ \E self \in InFlight : RemoveTabSessionRead(self)
  \/ \E self \in InFlight : RemoveTabSessionWrite(self)

SpecTabs == Init /\ [][NextTabs]_vars

\* The installing events, and sessions being deleted
NextSessions ==
  \/ \E t \in Tabs, u \in NavUrls : OnBeforeNavigate(t, u)
  \/ \E t \in Tabs, s \in SessionIds : SetTabSession(t, s)
  \/ \E t \in Tabs, h \in Responses : OnHeadersReceived(t, h)
  \/ \E s \in SessionIds : DeleteSession(s)
  \/ \E self \in InFlight : SetTabSessionTabGet(self)
  \/ \E self \in InFlight : RemoveOldRules(self)
  \/ \E self \in InFlight : BuildCookieHeader(self)
  \/ \E self \in InFlight : GetNextRuleIdRead(self)
  \/ \E self \in InFlight : GetNextRuleIdWrite(self)
  \/ \E self \in InFlight : AddRules(self)
  \/ \E self \in InFlight : SetTabInfoRead(self)
  \/ \E self \in InFlight : SetTabInfoWrite(self)
  \/ \E self \in InFlight : SetSessionCookieRead(self)
  \/ \E self \in InFlight : SetSessionCookieWrite(self)
  \/ \E self \in InFlight : RefreshTabGet(self)
  \/ \E self \in InFlight : DeleteSessionGetSessions(self)
  \/ \E self \in InFlight : DeleteSessionSetSessions(self)
  \/ \E self \in InFlight : DeleteSessionGetCookies(self)
  \/ \E self \in InFlight : DeleteSessionSetCookies(self)
  \/ \E self \in InFlight : DeleteSessionGetTabs(self)
  \/ \E self \in InFlight : DeleteSessionSetTabs(self)
  \/ \E self \in InFlight : DeleteSessionUpdateTabs(self)

SpecSessions == Init /\ [][NextSessions]_vars

\* The popup and the context menu offer the sessions of the stored list:
\* a session switch or an open-in-session names a session that is listed
\* when the handler starts
SetTabSessionListed(tabId, sessionId) ==
  /\ sessionId \in Range(sessions)
  /\ SetTabSession(tabId, sessionId)

OpenInSessionListed(sessionId, url) ==
  /\ sessionId \in Range(sessions)
  /\ OpenInSession(sessionId, url)

\* Tabs opened, switched and navigated and sessions deleted, every request
\* naming a listed session
NextListed ==
  \/ \E t \in Tabs, u \in NavUrls : OnBeforeNavigate(t, u)
  \/ \E t \in Tabs, s \in SessionIds : SetTabSessionListed(t, s)
  \/ \E s \in SessionIds, u \in NavUrls : OpenInSessionListed(s, u)
  \/ \E o \in Tabs \cup {0} : OnCreated(o)
  \/ \E s \in SessionIds : DeleteSession(s)
  \/ \E self \in InFlight : SetTabSessionTabGet(self)
  \/ \E self \in InFlight : RemoveOldRules(self)
  \/ \E self \in InFlight : BuildCookieHeader(self)
  \/ \E self \in InFlight : GetNextRuleIdRead(self)
  \/ \E self \in InFlight : GetNextRuleIdWrite(self)
  \/ \E self \in InFlight : AddRules(self)
  \/ \E self \in InFlight : SetTabInfoRead(self)
  \/ \E self \in InFlight : SetTabInfoWrite(self)
  \/ \E self \in InFlight : OpenInSessionCreated(self)
  \/ \E self \in InFlight : CreatedEvent(self)
  \/ \E self \in InFlight : DeleteSessionGetSessions(self)
  \/ \E self \in InFlight : DeleteSessionSetSessions(self)
  \/ \E self \in InFlight : DeleteSessionGetCookies(self)
  \/ \E self \in InFlight : DeleteSessionGetTabs(self)
  \/ \E self \in InFlight : DeleteSessionSetTabs(self)
  \/ \E self \in InFlight : DeleteSessionUpdateTabs(self)

SpecListed == Init /\ [][NextListed]_vars

\* A tab of the default session switched while no handler is running
SwitchIdleTab(tabId, sessionId) ==
  /\ tasks = EmptyBag
  /\ CachedOrDefault(tabId).sessionId = "default"
  /\ SetTabSession(tabId, sessionId)

\* Responses with Set-Cookie headers arriving on a tab whose session was
\* switched while nothing else ran: the only handlers that overlap are the
\* captures of a response and the refreshes they start
NextCapture ==
  \/ \E t \in Tabs, s \in SessionIds : SwitchIdleTab(t, s)
  \/ \E t \in Tabs, h \in Responses : OnHeadersReceived(t, h)
  \/ \E self \in InFlight : SetTabSessionTabGet(self)
  \/ \E self \in InFlight : RemoveOldRules(self)
  \/ \E self \in InFlight : BuildCookieHeader(self)
  \/ \E self \in InFlight : GetNextRuleIdRead(self)
  \/ \E self \in InFlight : GetNextRuleIdWrite(self)
  \/ \E self \in InFlight : AddRules(self)
  \/ \E self \in InFlight : SetTabInfoRead(self)
  \/ \E self \in InFlight : SetTabInfoWrite(self)
  \/ \E self \in InFlight : SetSessionCookieRead(self)
  \/ \E self \in InFlight : SetSessionCookieWrite(self)
  \/ \E self \in InFlight : RefreshTabGet(self)

SpecCapture == Init /\ [][NextCapture]_vars

\* Navigations of tabs whose session was switched while nothing else ran,
\* each with its request leaving at some point
NextNavigation ==
  \/ \E t \in Tabs, s \in SessionIds : SwitchIdleTab(t, s)
  \/ \E t \in Tabs, u \in NavUrls : OnBeforeNavigate(t, u)
  \/ \E self \in InFlight : DispatchRequest(self)
  \/ \E self \in InFlight : SetTabSessionTabGet(self)
  \/ \E self \in InFlight : RemoveOldRules(self)
  \/ \E self \in InFlight : BuildCookieHeader(self)
  \/ \E self \in InFlight : GetNextRuleIdRead(self)
  \/ \E self \in InFlight : GetNextRuleIdWrite(self)
  \/ \E self \in InFlight : AddRules(self)
  \/ \E self \in InFlight : SetTabInfoRead(self)
  \/ \E self \in InFlight : SetTabInfoWrite(self)

SpecNavigation == Init /\ [][NextNavigation]_vars

\* Links opened in a chosen session, and navigations
NextOpen ==
  \/ \E s \in SessionIds, u \in NavUrls : OpenInSession(s, u)
  \/ \E t \in Tabs, u \in NavUrls : OnBeforeNavigate(t, u)
  \/ \E self \in InFlight : OpenInSessionCreated(self)
  \/ \E self \in InFlight : CreatedEvent(self)
  \/ \E self \in InFlight : RemoveOldRules(self)
  \/ \E self \in InFlight : BuildCookieHeader(self)
  \/ \E self \in InFlight : GetNextRuleIdRead(self)
  \/ \E self \in InFlight : GetNextRuleIdWrite(self)
  \/ \E self \in InFlight : AddRules(self)
  \/ \E self \in InFlight : SetTabInfoRead(self)
  \/ \E self \in InFlight : SetTabInfoWrite(self)

SpecOpen == Init /\ [][NextOpen]_vars

\* Tabs opened from other tabs, whose sessions are switched, with the
\* service worker restarting in between (an opener may be missing from
\* the tab cache)
NextInherit ==
  \/ \E o \in Tabs \cup {0} : OnCreated(o)
  \/ \E t \in Tabs, s \in SessionIds : SwitchIdleTab(t, s)
  \/ Restart
  \/ \E self \in InFlight : StartupQuery(self)
  \/ \E self \in InFlight : StartupGetTabSession(self)
  \/ \E self \in InFlight : CreatedGetTabSession(self)
  \/ \E self \in InFlight : SetTabSessionTabGet(self)
  \/ \E self \in InFlight : BuildCookieHeader(self)
  \/ \E self \in InFlight : GetNextRuleIdRead(self)
  \/ \E self \in InFlight : GetNextRuleIdWrite(self)
  \/ \E self \in InFlight : AddRules(self)
  \/ \E self \in InFlight : SetTabInfoRead(self)
  \/ \E self \in InFlight : SetTabInfoWrite(self)

SpecInherit == Init /\ [][NextInherit]_vars

\* Cookie captures on switched tabs, and sessions' cookies being cleared
NextClear ==
  \/ \E t \in Tabs, s \in SessionIds : SwitchIdleTab(t, s)
  \/ \E t \in Tabs, h \in Responses : OnHeadersReceived(t, h)
  \/ \E s \in SessionIds : ClearSessionCookies(s)
  \/ \E self \in InFlight : SetTabSessionTabGet(self)
  \/ \E self \in InFlight : RemoveOldRules(self)
  \/ \E self \in InFlight : BuildCookieHeader(self)
  \/ \E self \in InFlight : GetNextRuleIdRead(self)
  \/ \E self \in InFlight : GetNextRuleIdWrite(self)
  \/ \E self \in InFlight : AddRules(self)
  \/ \E self \in InFlight : SetTabInfoRead(self)
  \/ \E self \in InFlight : SetTabInfoWrite(self)
  \/ \E self \in InFlight : SetSessionCookieRead(self)
  \/ \E self \in InFlight : SetSessionCookieWrite(self)
  \/ \E self \in InFlight : RefreshTabGet(self)
  \/ \E self \in InFlight : ClearSessionCookiesRead(self)
  \/ \E self \in InFlight : ClearSessionCookiesWrite(self)

SpecClear == Init /\ [][NextClear]_vars

\* ------------------------------------------------------- the cookie store
\* The store's operations run one at a time: each call of
\* Storage.setSessionCookie and Storage.clearSessionCookies reads and
\* writes 'sessionCookies' with no other store operation in between, on
\* records parsed from Set-Cookie headers, while the clock advances
StoreSessions == {"personal", "work"}
StoreUrls == {"https://a.com/", "https://b.a.com/"}
StoreHeaders ==
  {"sid=1", "tok=2; Domain=a.com", "tmp=4; Max-Age=2",
   "old=3; Expires=Thu, 01 Jan 1970 00:00:00 GMT",
   "exp=5; Expires=Thu, 01 Jan 1970 00:00:05 GMT"}
RequestDomains == {"a.com", "b.a.com", "xa.com", "c.org"}

\* the records parseSetCookie makes of these headers at each time
StoreRecords ==
  [time \in 1..MaxNow |->
     {parseSetCookie(h, u, time) : h \in StoreHeaders, u \in StoreUrls}]

StorePut(sessionId, cookie) ==
  /\ events < MaxStoreOps
  /\ events' = events + 1
  /\ sessionCookies' = setSessionCookie(sessionCookies, sessionId, cookie)
  /\ UNCHANGED <<sessions, tabSessions, ruleIdCounter, browserVars, tabCache,
                 sessionRules, tasks>>

StoreClear(sessionId) ==
  /\ events < MaxStoreOps
  /\ events' = events + 1
  /\ sessionCookies' = clearSessionCookies(sessionCookies, sessionId)
  /\ UNCHANGED <<sessions, tabSessions, ruleIdCounter, browserVars, tabCache,
                 sessionRules, tasks>>

\* Date.now() / 1000 grows
Tick ==
  /\ now < MaxNow
  /\ now' = now + 1
  /\ UNCHANGED <<storeVars, engineRejects, liveTabs, tabUrl, nextTabId,
                 tabCache, sessionRules, tasks, events>>

NextStore ==
  \/ \E s \in StoreSessions, c \in StoreRecords[now] : StorePut(s, c)
  \/ \E s \in StoreSessions : StoreClear(s)
  \/ Tick

SpecStore == Init /\ [][NextStore]_vars

\* Handlers of different tabs side by side: a tab gets a new handler only
\* when none is running for it
SwitchFreeTab(tabId, sessionId) ==
  (\A x \in InFlight : x.tabId # tabId) /\ SetTabSession(tabId, sessionId)

NavigateFreeTab(tabId, url) ==
  (\A x \in InFlight : x.tabId # tabId) /\ OnBeforeNavigate(tabId, url)

NextMirror ==
  \/ \E o \in Tabs \cup {0} : OnCreated(o)
  \/ \E t \in Tabs, s \in SessionIds : SwitchFreeTab(t, s)
  \/ \E t \in Tabs, u \in NavUrls : NavigateFreeTab(t, u)
  \/ \E self \in InFlight : SetTabSessionTabGet(self)
  \/ \E self \in InFlight : RemoveOldRules(self)
  \/ \E self \in InFlight : BuildCookieHeader(self)
  \/ \E self \in InFlight : GetNextRuleIdRead(self)
  \/ \E self \in InFlight : GetNextRuleIdWrite(self)
  \/ \E self \in InFlight : AddRules(self)
  \/ \E self \in InFlight : SetTabInfoRead(self)
  \/ \E self \in InFlight : SetTabInfoWrite(self)

SpecMirror == Init /\ [][NextMirror]_vars

\* Requests whose responses come back late: a tab is switched while no
\* handler runs but responses may be outstanding
SwitchWhileWaiting(tabId, sessionId) ==
  (\A x \in InFlight : x.kind = "request") /\ SetTabSession(tabId, sessionId)

NextLateResponse ==
  \/ \E t \in Tabs, s \in SessionIds : SwitchWhileWaiting(t, s)
  \/ \E t \in Tabs : IssueRequest(t)
  \/ \E self \in InFlight, h \in Responses : ResponseArrives(self, h)
  \/ \E self \in InFlight : SetTabSessionTabGet(self)
  \/ \E self \in InFlight : RemoveOldRules(self)
  \/ \E self \in InFlight : BuildCookieHeader(self)
  \/ \E self \in InFlight : GetNextRuleIdRead(self)
  \/ \E self \in InFlight : GetNextRuleIdWrite(self)
  \/ \E self \in InFlight : AddRules(self)
  \/ \E self \in InFlight : SetTabInfoRead(self)
  \/ \E self \in InFlight : SetTabInfoWrite(self)
  \/ \E self \in InFlight : SetSessionCookieRead(self)
  \/ \E self \in InFlight : SetSessionCookieWrite(self)
  \/ \E self \in InFlight : RefreshTabGet(self)

SpecLateResponse == Init /\ [][NextLateResponse]_vars

\* Set-Cookie headers whose attributes parseSetCookie has to tell apart,
\* parsed for a response of either url and stored in one session
ParseHeaders ==
  {"sid=1", "tok=2; Domain=a.com", "tok=2; Domain=.a.com",
   "tmp=4; Max-Age=2",
   "tmp=4; Expires=Thu, 01 Jan 1970 00:01:00 GMT",
   "tmp=4; Expires=Thu, 01 Jan 1970 00:01:00 GMT; Max-Age=2",
   "tmp=4; Max-Age=2; Expires=Thu, 01 Jan 1970 00:01:00 GMT",
   "bad=1", "bad=1; Expires=never", "bad=1; Max-Age=soon",
   "bad=1; Max-Age=2", "bad=1; Max-Age=2; Expires=never",
   "bad=1; Expires=Thu, 01 Jan 1970 00:01:00 GMT",
   "bad=1; Expires=Thu, 01 Jan 1970 00:01:00 GMT; Max-Age=soon"}

Parsed ==
  [time \in 1..MaxNow |->
     [p \in ParseHeaders \X StoreUrls |-> parseSetCookie(p[1], p[2], time)]]

NextParse ==
  \/ \E h \in ParseHeaders, u \in StoreUrls :
       StorePut("personal", Parsed[now][<<h, u>>])
  \/ Tick

SpecParse == Init /\ [][NextParse]_vars

\* Set-Cookie headers with and without a SameSite attribute
SameSiteHeaders ==
  {"sid=1", "sid=1; SameSite=Strict", "sid=1; SameSite=None",
   "sid=1; SameSite=Lax", "sid=1; SameSite", "sid=1; SameSite=",
   "sid=1; SameSite=bogus"}

ParsedSameSite ==
  [p \in SameSiteHeaders \X StoreUrls |-> parseSetCookie(p[1], p[2], 1)]

NextSameSite ==
  \/ \E s \in StoreSessions, h \in SameSiteHeaders, u \in StoreUrls :
       StorePut(s, ParsedSameSite[<<h, u>>])
  \/ \E s \in StoreSessions : StoreClear(s)

SpecSameSite == Init /\ [][NextSameSite]_vars

\* Session switches and service-worker restarts, one after the other
NextRestart ==
  \/ \E t \in Tabs, s \in SessionIds : tasks = EmptyBag /\ SetTabSession(t, s)
  \/ Restart
  \/ \E self \in InFlight : StartupQuery(self)
  \/ \E self \in InFlight : StartupGetTabSession(self)
  \/ \E self \in InFlight : SetTabSessionTabGet(self)
  \/ \E self \in InFlight : RemoveOldRules(self)
  \/ \E self \in InFlight : BuildCookieHeader(self)
  \/ \E self \in InFlight : GetNextRuleIdRead(self)
  \/ \E self \in InFlight : GetNextRuleIdWrite(self)
  \/ \E self \in InFlight : AddRules(self)
  \/ \E self \in InFlight : SetTabInfoRead(self)
  \/ \E self \in InFlight : SetTabInfoWrite(self)

SpecRestart == Init /\ [][NextRestart]_vars

\* Handlers that run one after the other: each starts when no other is
\* suspended, and a response carries one Set-Cookie header
IdleSwitch(tabId, sessionId) ==
  tasks = EmptyBag /\ SetTabSession(tabId, sessionId)

IdleNavigate(tabId, url) ==
  tasks = EmptyBag /\ OnBeforeNavigate(tabId, url)

IdleCapture(tabId, header) ==
  tasks = EmptyBag /\ OnHeadersReceived(tabId, <<header>>)

NextSequential ==
  \/ \E t \in Tabs, s \in SessionIds : IdleSwitch(t, s)
  \/ \E t \in Tabs, u \in NavUrls : IdleNavigate(t, u)
  \/ \E t \in Tabs, h \in SetCookieHeaders : IdleCapture(t, h)
  \/ \E self \in InFlight : SetTabSessionTabGet(self)
  \/ \E self \in InFlight : RemoveOldRules(self)
  \/ \E self \in InFlight : BuildCookieHeader(self)
  \/ \E self \in InFlight : GetNextRuleIdRead(self)
  \/ \E self \in InFlight : GetNextRuleIdWrite(self)
  \/ \E self \in InFlight : AddRules(self)
  \/ \E self \in InFlight : SetTabInfoRead(self)
  \/ \E self \in InFlight : SetTabInfoWrite(self)
  \/ \E self \in InFlight : SetSessionCookieRead(self)
  \/ \E self \in InFlight : SetSessionCookieWrite(self)
  \/ \E self \in InFlight : RefreshTabGet(self)

SpecSequential == Init /\ [][NextSequential]_vars

\* Sequential handlers on the first tab and on tabs opened later, whose
\* tab.url is still empty
IdleCreate(opener) == tasks = EmptyBag /\ OnCreated(opener)

NextSynthesis ==
  \/ NextSequential
  \/ \E o \in Tabs \cup {0} : IdleCreate(o)

SpecSynthesis == Init /\ [][NextSynthesis]_vars

\* Set-Cookie headers that meet in one (domain, cookieKey) slot of a jar
UpsertHeaders ==
  {"sid=1", "sid=9; Secure", "sid=7; Path=/x", "a|b=1", "a=2; Path=b|/"}

UpsertRecords ==
  {parseSetCookie(h, u, 1) : h \in UpsertHeaders, u \in StoreUrls}

NextUpsert ==
  \/ \E s \in StoreSessions, c \in UpsertRecords : StorePut(s, c)
  \/ \E s \in StoreSessions : StoreClear(s)

SpecUpsert == Init /\ [][NextUpsert]_vars

\* ----------------------------------------------------------------- claims
\* a handler that runs applyRulesForTab for tab t is in flight
InstallInFlight(t) ==
  \E x \in InFlight :
    x.tabId = t /\ x.kind \in {"navigate", "setTabSession", "refresh"}

\* some handler for tab t is in flight
HandlerInFlight(t) == \E x \in InFlight : x.tabId = t

\* the task holds the rule-id block [nextId, nextId + 99] it was given
HoldsBlock(x) == x.pc \in {"addRules", "sti_get", "sti_set"} /\ x.nextId > 0

StripsSetCookie(r) ==
  \E i \in DOMAIN r.responseHeaders :
    /\ r.responseHeaders[i].header = "Set-Cookie"
    /\ r.responseHeaders[i].operation = "remove"

InstalledIds == {r.id : r \in sessionRules}

\* C1: the rule-id blocks held by installs on two different tabs are
\* disjoint, and so are the rule ids recorded in two tabs' bindings.
C1_RuleIdBlocksDisjoint ==
  /\ \A x, y \in InFlight :
       (HoldsBlock(x) /\ HoldsBlock(y) /\ x.tabId # y.tabId)
         => (x.nextId + RuleBlock <= y.nextId \/ y.nextId + RuleBlock <= x.nextId)
  /\ \A t, u \in DOMAIN tabCache :
       t # u => Range(tabCache[t].ruleIds) \cap Range(tabCache[u].ruleIds) = {}

\* C2: when no install for tab t is in flight and t's binding has
\* sessionId 'default', the rule engine holds no rule scoped to t.
C2_NoRuleForDefaultTab ==
  \A t \in DOMAIN tabCache :
    (~InstallInFlight(t) /\ tabCache[t].sessionId = "default")
      => RulesOfTab(t) = {}

\* C3: while a live tab is bound to a non-default session and has had its
\* rules installed, and is not being switched to default, a rule removing
\* the response Set-Cookie header and scoped to the tab is installed - in
\* the states in the middle of a rule rebuild too.
C3_SetCookieAlwaysStripped ==
  \A t \in liveTabs \cap DOMAIN tabCache :
    (/\ tabCache[t].sessionId # "default"
     /\ Len(tabCache[t].ruleIds) > 0
     /\ ~\E x \in InFlight : x.tabId = t /\ x.sessionId = "default")
      => \E r \in RulesOfTab(t) : StripsSetCookie(r)

\* C4: whenever no install for tab t is in flight, the rule ids installed
\* for t are exactly the ruleIds recorded in t's cache binding.
C4_InstalledEqualsRecorded ==
  \A t \in DOMAIN tabCache :
    ~InstallInFlight(t) => IdsOfTab(t) = Range(tabCache[t].ruleIds)

\* C5: a setSessionCookie write never drops a record that an earlier
\* call has stored: once all calls have completed, every record is there.
C5_NoLostCookieUpdate ==
  [][\A self \in InFlight :
       SetSessionCookieWrite(self) =>
         \A s \in DOMAIN sessionCookies :
           \A i \in DOMAIN sessionCookies[s] :
             /\ s \in DOMAIN sessionCookies'
             /\ \E j \in DOMAIN sessionCookies'[s] :
                  /\ sessionCookies'[s][j].domain = sessionCookies[s][i].domain
                  /\ CookieKey(sessionCookies'[s][j])
                       = CookieKey(sessionCookies[s][i])]_vars

\* C6: the rule engine never holds more than 2 rules scoped to one tab,
\* so never more than 2 per live tab bound to a non-default session.
C6_AtMostTwoRulesPerTab ==
  /\ \A t \in Tabs : Cardinality(RulesOfTab(t)) <= 2
  /\ Cardinality(sessionRules)
       <= 2 * Cardinality({t \in liveTabs \cap DOMAIN tabCache :
                             tabCache[t].sessionId # "default"})

\* C7: when applyRulesForTab returns after the engine rejected its
\* addRules call, every rule id recorded in the tab's binding (cache and
\* persisted mirror) is the id of an installed rule.
C7_RejectedInstallRecordsNoGhostIds ==
  [][\A self \in InFlight :
       (SetTabInfoWrite(self) /\ self.addError) =>
         /\ self.tabId \in DOMAIN tabCache' =>
              Range(tabCache'[self.tabId].ruleIds) \subseteq InstalledIds'
         /\ Range(tabSessions'[self.tabId].ruleIds) \subseteq InstalledIds']_vars

\* C8: once a tab is closed and no handler for it is in flight, it has no
\* entry in the tab cache or in persisted tabSessions and no rule scoped
\* to it is installed.
C8_RemovedTabLeavesNothing ==
  \A t \in Tabs :
    (t < nextTabId /\ t \notin liveTabs /\ ~HandlerInFlight(t))
      => /\ t \notin DOMAIN tabCache
         /\ t \notin DOMAIN tabSessions
         /\ RulesOfTab(t) = {}

\* C9: when deleteSession(s), s # 'default', completes, every tab whose
\* binding pointed at s has sessionId 'default' in the tab cache and in
\* persisted tabSessions, and getTabSession returns 'default' for it.
C9_DeletedSessionTabsAreDefault ==
  [][\A self \in InFlight :
       (DeleteSessionUpdateTabs(self) /\ self.sessionId # "default") =>
         \A t \in Tabs :
           (\/ (t \in DOMAIN tabCache
                 /\ tabCache[t].sessionId = self.sessionId)
            \/ (t \in DOMAIN tabSessions
                 /\ tabSessions[t].sessionId = self.sessionId))
             => /\ t \in DOMAIN tabCache' =>
                     tabCache'[t].sessionId = "default"
                /\ getTabSession(tabSessions', t) = "default"]_vars

\* C10: once deleteSession(s), s # 'default', has completed and the
\* handlers in flight have finished, persisted sessionCookies holds no
\* record under s.
C10_DeletedSessionHasNoCookies ==
  \A s \in SessionIds \ {"default"} :
    (/\ s \notin Range(sessions)
     /\ tasks = EmptyBag
     /\ \A t \in DOMAIN tabCache : tabCache[t].sessionId # s)
      => getSessionCookies(sessionCookies, s) = <<>>

\* C11: when no handler is in flight, the sessionId of every tab binding,
\* in the tab cache and in persisted tabSessions, is 'default' or the id of
\* a session of the stored sessions list.
C11_BindingsReferenceListedSessions ==
  tasks = EmptyBag =>
    /\ \A t \in DOMAIN tabCache :
         tabCache[t].sessionId \in {"default"} \cup Range(sessions)
    /\ \A t \in DOMAIN tabSessions :
         tabSessions[t].sessionId \in {"default"} \cup Range(sessions)

\* s.includes(sub)
Contains(s, sub) ==
  \E i \in 1..(Len(s) - Len(sub) + 1) : SubSeq(s, i, i + Len(sub) - 1) = sub

\* rule r sets a request Cookie header that contains pair
SetsCookiePair(r, pair) ==
  \E i \in DOMAIN r.requestHeaders :
    /\ r.requestHeaders[i].header = "Cookie"
    /\ r.requestHeaders[i].operation = "set"
    /\ Contains(r.requestHeaders[i].value, pair)

\* C12: when the refresh that a captured Set-Cookie triggered finishes and
\* no other handler for the tab is left, the tab is still bound to the
\* session the record was stored in, and the record matches the tab's URL
\* and has not expired, then the Cookie rule installed for the tab sets a
\* value containing the record's name=value pair.
C12_CapturedCookieReachesNextRequest ==
  [][\A self \in InFlight :
       (/\ SetTabInfoWrite(self)
        /\ self.kind = "refresh"
        /\ ~\E x \in BagToSet(tasks') : x.tabId = self.tabId
        /\ self.tabId \in liveTabs
        /\ Has(tabCache, self.tabId)
        /\ tabCache[self.tabId].sessionId = self.jar
        /\ domainMatches(Hostname(tabUrl[self.tabId]), self.cookie.domain)
        /\ (self.cookie.expirationDate = Null
             \/ Greater(self.cookie.expirationDate, now)))
       => \E r \in RulesOfTab(self.tabId) :
            SetsCookiePair(r, self.cookie.name \o "=" \o self.cookie.value)]_vars

\* the engine holds for tab t a rule that replaces the request Cookie
\* header by the header of session s for url, and a rule that strips
\* Set-Cookie
DestinationRulesInstalled(t, s, url) ==
  /\ \E r \in RulesOfTab(t) :
       r.requestHeaders =
         CookieRule(r.id, t, buildCookieHeader(sessionCookies, s,
                                               Hostname(url), now)).requestHeaders
  /\ \E r \in RulesOfTab(t) : StripsSetCookie(r)

\* C13: when the request of a main-frame navigation of a tab bound to a
\* non-default session is dispatched, the rules for the destination URL
\* are installed.
C13_RulesInstalledBeforeRequest ==
  [][\A self \in InFlight :
       (/\ DispatchRequest(self)
        /\ Has(tabCache, self.tabId)
        /\ tabCache[self.tabId].sessionId # "default")
       => DestinationRulesInstalled(self.tabId,
                                    tabCache[self.tabId].sessionId,
                                    self.url)]_vars

\* C14: when the open-in-session handler for session s returns and no
\* other handler for the new tab is left (its tab-created handler has
\* finished), the new tab's binding has sessionId s in the tab cache and
\* in persisted tabSessions.
C14_OpenedTabIsInChosenSession ==
  [][\A self \in InFlight :
       (/\ SetTabInfoWrite(self)
        /\ self.kind = "openInSession"
        /\ ~\E x \in BagToSet(tasks') : x.tabId = self.tabId)
       => /\ Has(tabCache', self.tabId)
          /\ tabCache'[self.tabId].sessionId = self.sessionId
          /\ getTabSession(tabSessions', self.tabId) = self.sessionId]_vars

\* the tab-created handler of tab t goes on to Storage.setTabInfo with
\* sessionId and no rule ids
PersistsInherited(t, sessionId) ==
  \E x \in BagToSet(tasks') :
    /\ x.kind = "created" /\ x.tabId = t /\ x.pc = "sti_get"
    /\ x.sessionId = sessionId /\ x.ruleIds = <<>>

\* the tab-created handler binds tab t to sessionId in the tab cache
InheritsInCache(t, sessionId) ==
  /\ Has(tabCache', t)
  /\ tabCache'[t].sessionId = sessionId
  /\ tabCache'[t].ruleIds = <<>>
  /\ PersistsInherited(t, sessionId)

C16_StoreOperationsKeepOtherSessions ==
  [][\A s1 \in StoreSessions :
       (\/ \E c \in StoreRecords[now] : StorePut(s1, c)
        \/ StoreClear(s1))
       => \A s2 \in StoreSessions \ {s1}, d \in RequestDomains :
            getSessionCookiesForDomain(sessionCookies', s2, d)
              = getSessionCookiesForDomain(sessionCookies, s2, d)]_vars

\* 'work' has been cleared after records were put in both sessions, and
\* the query of 'personal' still returns its record
C16_Witness ==
  /\ Has(sessionCookies, "work") /\ sessionCookies["work"] = <<>>
  /\ getSessionCookiesForDomain(sessionCookies, "personal", "a.com") # <<>>
  /\ events = MaxStoreOps

\* C17: once clearSessionCookies(s) has emptied the jar of s (the jar is
\* there and empty: nothing has been stored in s since), a step leaves in
\* the result of getSessionCookiesForDomain(s, d) no record but the one a
\* setSessionCookie call for s is writing in that step - so no record that
\* was stored before the clear.
C17_ClearVisibleToNextQuery ==
  [][\A s \in SessionIds :
       (Has(sessionCookies, s) /\ sessionCookies[s] = <<>>)
       => \A d \in RequestDomains :
            \A c \in Range(getSessionCookiesForDomain(sessionCookies', s, d)) :
              \E self \in InFlight :
                /\ SetSessionCookieWrite(self)
                /\ self.jar = s
                /\ self.cookie = c]_vars

\* C18: getSessionCookiesForDomain(s, d), called at time now, returns every
\* record of s whose domain matches d and whose expirationDate is absent or
\* later than now, and returns no record whose expirationDate is earlier
\* than now.
C18_QueryReturnsLiveRecordsOnly ==
  \A s \in StoreSessions, d \in RequestDomains :
    LET returned == Range(getSessionCookiesForDomain(sessionCookies, s, d))
    IN /\ \A c \in Range(getSessionCookies(sessionCookies, s)) :
            (/\ domainMatches(d, c.domain)
             /\ \/ c.expirationDate = Null
                \/ /\ c.expirationDate.t = "number"
                   /\ c.expirationDate.n > now)
            => c \in returned
       /\ \A c \in returned :
            ~(c.expirationDate.t = "number" /\ c.expirationDate.n < now)

\* C19: the records buildCookieHeader(s, d) joins into the header at time
\* now include no record whose expirationDate is a number e >= 0 with
\* now > e, and include every record of s with a null expirationDate whose
\* domain matches d.
C19_ExpiredCookiesNeverInHeader ==
  \A s \in StoreSessions, d \in RequestDomains :
    LET included == Range(HeaderRecords(sessionCookies, s, d, now))
    IN \A c \in Range(getSessionCookies(sessionCookies, s)) :
         /\ (/\ c.expirationDate.t = "number"
             /\ c.expirationDate.n >= 0
             /\ now > c.expirationDate.n)
            => c \notin included
         /\ (c.expirationDate = Null /\ domainMatches(d, c.domain))
            => c \in included

\* C20: for every request domain r and every stored domain c,
\* domainMatches(r, c) is true exactly when c begins with "." and r equals
\* c without its leading dot or r ends with the whole dotted c, or c does
\* not begin with "." and r = c.
C20_DomainMatchRule ==
  \A s \in StoreSessions, r \in RequestDomains :
    \A rec \in Range(getSessionCookies(sessionCookies, s)) :
      LET c == rec.domain
      IN domainMatches(r, c)
           <=> IF SubSeq(c, 1, 1) = "."
               THEN \/ r = SubSeq(c, 2, Len(c))
                    \/ /\ Len(r) >= Len(c)
                       /\ SubSeq(r, Len(r) - Len(c) + 1, Len(r)) = c
               ELSE r = c

\* a session holds a record of ".a.com" and one of "a.com": the query for
\* "b.a.com" returns the first and not the second, the query for "a.com"
\* returns both, the query for "xa.com" returns neither
C20_Witness ==
  \E s \in StoreSessions :
    \E c1, c2 \in Range(getSessionCookies(sessionCookies, s)) :
      /\ c1.domain = ".a.com"
      /\ c2.domain = "a.com"
      /\ c1 \in Range(getSessionCookiesForDomain(sessionCookies, s, "b.a.com"))
      /\ c2 \notin Range(getSessionCookiesForDomain(sessionCookies, s, "b.a.com"))
      /\ {c1, c2} \subseteq
           Range(getSessionCookiesForDomain(sessionCookies, s, "a.com"))
      /\ Range(getSessionCookiesForDomain(sessionCookies, s, "xa.com")) = {}

\* C21: after setSessionCookie(s, c) the jar of s holds exactly one record
\* with the domain, name and path of c, that record is c in every field,
\* and every record of s with another (domain, name, path) is in the jar
\* as it was before.
SameKey(r, c) == r.domain = c.domain /\ r.name = c.name /\ r.path = c.path

C21_UpsertLastWriteWins ==
  [][\A s \in StoreSessions, c \in UpsertRecords :
       StorePut(s, c)
       => LET before == getSessionCookies(sessionCookies, s)
              after == getSessionCookies(sessionCookies', s)
          IN /\ Cardinality({i \in DOMAIN after : SameKey(after[i], c)}) = 1
             /\ \A i \in DOMAIN after : SameKey(after[i], c) => after[i] = c
             /\ \A r \in Range(before) : ~SameKey(r, c) => r \in Range(after)
             /\ \A r \in Range(after) : ~SameKey(r, c) => r \in Range(before)]_vars

\* the jars the captures of SetCookieHeaders can build, and the Cookie
\* values they give
CapturedRecords ==
  {parseSetCookie(h, u, 1) : h \in SetCookieHeaders, u \in NavUrls}

CapturedJars ==
  {<<>>} \cup {<<c>> : c \in CapturedRecords}
         \cup {<<p[1], p[2]>> :
                 p \in {q \in CapturedRecords \X CapturedRecords : q[1] # q[2]}}

CapturedValues == {JoinPairs(j) : j \in CapturedJars}

\* a rule without its id
Body(r) == [r EXCEPT !.id = 0]

\* no handler is running, tab t is bound to session s whose jar is j, was
\* last installed for host h, and the engine holds for it two rules whose
\* bodies are those built around the Cookie value v
InstalledWith(t, s, h, j, v) ==
  /\ tasks = EmptyBag
  /\ Has(tabCache, t)
  /\ tabCache[t].sessionId = s
  /\ tabCache[t].domains = {h}
  /\ getSessionCookies(sessionCookies, s) = j
  /\ Cardinality(IdsOfTab(t)) = 2
  /\ {Body(r) : r \in RulesOfTab(t)} = {Body(r) : r \in Range(RulesFor(0, t, v))}

\* no handler is running and tab t, bound to s whose jar is j, was last
\* installed for host h
InstalledAgain(t, s, h, j) ==
  /\ tasks = EmptyBag
  /\ Has(tabCache, t)
  /\ tabCache[t].sessionId = s
  /\ tabCache[t].domains = {h}
  /\ getSessionCookies(sessionCookies, s) = j

\* C22: once applyRulesForTab(t, s, url) has returned and left two rules
\* for the tab, every later call with the same session and url that finds
\* the jar of s as it was leaves two rules with the same bodies (ids
\* aside); and a tab never has more than two rule ids in the engine.
C22_InstallIsIdempotent ==
  /\ [](\A t \in Tabs : Cardinality(IdsOfTab(t)) <= 2)
  /\ \A t \in InitialTabs, s \in SessionIds \ {"default"}, u \in NavUrls :
       \A j \in CapturedJars, v \in CapturedValues :
         [](InstalledWith(t, s, Hostname(u), j, v)
            => [](InstalledAgain(t, s, Hostname(u), j)
                  => InstalledWith(t, s, Hostname(u), j, v)))

\* the tab's rules have been installed three times in a row for the same
\* session and url with a cookie in the jar
C22_Witness ==
  /\ tasks = EmptyBag
  /\ ruleIdCounter = FirstRuleId + 3 * RuleBlock
  /\ \E c \in CapturedRecords :
       InstalledWith(1, "personal", "a.com", <<c>>, JoinPairs(<<c>>))
  /\ ~Has(sessionCookies, "work")
  /\ tabSessions[1].sessionId = "personal"

\* the engine holds for tab t one rule that rewrites the request Cookie
\* header, and it sends the value v (no Cookie header when v is empty)
SendsCookie(t, v) ==
  LET rewriting == {r \in RulesOfTab(t) : Len(r.requestHeaders) > 0}
  IN /\ Cardinality(rewriting) = 1
     /\ \A r \in rewriting :
          r.requestHeaders = CookieRule(0, t, v).requestHeaders

\* no handler is running and tab t is bound to session s
BoundAtRest(t, s) ==
  tasks = EmptyBag /\ Has(tabCache, t) /\ tabCache[t].sessionId = s

\* C23: when a tab on a fixed url is bound to session A with Cookie value
\* v, is then switched to another session B, and is later bound to A again
\* with the jar of A as it was, its request-Cookie rule sends v again.
C23_SwitchRoundTrip ==
  \A t \in InitialTabs, u \in NavUrls :
    \A a \in SessionIds \ {"default"}, j \in CapturedJars, v \in CapturedValues :
      \A b \in SessionIds \ {a} :
        []((InstalledAgain(t, a, Hostname(u), j) /\ SendsCookie(t, v))
           => [](BoundAtRest(t, b)
                 => [](InstalledAgain(t, a, Hostname(u), j)
                       => SendsCookie(t, v))))

\* the tab is back in 'personal' after four installs, with the cookie that
\* was captured under 'personal' in its Cookie rule
C23_Witness ==
  /\ tasks = EmptyBag
  /\ events = 4
  /\ ruleIdCounter = FirstRuleId + 4 * RuleBlock
  /\ Has(tabCache, 1)
  /\ tabCache[1] = CacheInfo("personal", <<FirstRuleId + 3 * RuleBlock,
                                           FirstRuleId + 3 * RuleBlock + 1>>,
                             {"a.com"})
  /\ Has(sessionCookies, "personal")
  /\ Len(sessionCookies["personal"]) = 1
  /\ SendsCookie(1, JoinPairs(sessionCookies["personal"]))

\* createRulesForTab returns no rules for this call of applyRulesForTab
ReturnsNoRules(x) == x.sessionId = "default" \/ ~UrlParses(x.url)

\* the rules a step adds to the engine
AddedRules == sessionRules' \ sessionRules

\* C24: in calls that run one after the other, createRulesForTab returns
\* no rules for 'default' or for a url with no hostname, and then the
\* rule-id counter is left alone and the tab is bound to no rule id (only a
\* call for another session and a parsable url advances the counter, by
\* one block, and only such a call adds rules); otherwise it returns
\* exactly two rules with ids base and base + 1 of a block no installed
\* rule has an id in, each scoped to the one tab, the first removing the
\* request Cookie header and the second the response Set-Cookie header.
C24_RuleSynthesisShape ==
  [][/\ \A self \in InFlight :
          /\ GetNextRuleIdWrite(self)
             => /\ ~ReturnsNoRules(self)
                /\ ruleIdCounter' = self.nextId + RuleBlock
          /\ AddRules(self)
             => /\ ~ReturnsNoRules(self)
                /\ Cardinality(AddedRules) = 2
                /\ {r.id : r \in AddedRules} = {self.nextId, self.nextId + 1}
                /\ \A r \in sessionRules :
                     r.id \notin self.nextId .. (self.nextId + RuleBlock - 1)
                /\ \A r \in AddedRules :
                     /\ r.tabIds = {self.tabId}
                     /\ r.id = self.nextId
                        => /\ r.requestHeaders[1] =
                                [header |-> "Cookie", operation |-> "remove",
                                 value |-> ""]
                           /\ r.responseHeaders = <<>>
                     /\ r.id = self.nextId + 1
                        => /\ r.responseHeaders =
                                <<[header |-> "Set-Cookie",
                                   operation |-> "remove", value |-> ""]>>
                           /\ r.requestHeaders = <<>>
     /\ \A x \in BagToSet(tasks') \ InFlight :
          (x.pc = "sti_get" /\ ReturnsNoRules(x))
          => /\ AddedRules = {}
             /\ ruleIdCounter' = ruleIdCounter
             /\ x.ruleIds = <<>>
             /\ tabCache'[x.tabId].ruleIds = <<>>
     /\ ruleIdCounter' # ruleIdCounter
        => \E self \in InFlight : GetNextRuleIdWrite(self)
     /\ AddedRules # {} => \E self \in InFlight : AddRules(self)]_vars

\* tab 1 holds the two rules of the first block; tab 2, opened later and
\* switched to 'personal' while its url is empty, holds none, and the
\* counter has advanced by one block only
C24_Witness ==
  /\ tasks = EmptyBag
  /\ IdsOfTab(1) = {FirstRuleId, FirstRuleId + 1}
  /\ Has(tabCache, 2)
  /\ tabCache[2] = CacheInfo("personal", <<>>, {""})
  /\ IdsOfTab(2) = {}
  /\ ruleIdCounter = FirstRuleId + RuleBlock

\* headers with a Max-Age attribute, and its number of seconds
MaxAgeCases ==
  {<<"tmp=4; Max-Age=2", 2>>,
   <<"tmp=4; Expires=Thu, 01 Jan 1970 00:01:00 GMT; Max-Age=2", 2>>,
   <<"tmp=4; Max-Age=2; Expires=Thu, 01 Jan 1970 00:01:00 GMT", 2>>}

\* C25: the record parsed at time now from a header with Max-Age=n, and
\* stored, has expirationDate now + n, with or without an Expires attribute
\* and whichever of the two comes first.
C25_MaxAgeOverridesExpires ==
  [][\A case \in MaxAgeCases, u \in StoreUrls :
       StorePut("personal", Parsed[now][<<case[1], u>>])
       => \E c \in Range(getSessionCookies(sessionCookies', "personal")) :
            /\ c = Parsed[now][<<case[1], u>>]
            /\ c.expirationDate = Num(now + case[2])]_vars

\* headers without a Domain attribute, the url of the response and its
\* hostname; headers with a Domain attribute and its value
HostOnlyCases ==
  {<<"sid=1", "https://a.com/", "a.com">>,
   <<"sid=1", "https://b.a.com/", "b.a.com">>,
   <<"tmp=4; Max-Age=2", "https://b.a.com/", "b.a.com">>}

DomainCases == {<<"tok=2; Domain=a.com", "a.com">>,
                <<"tok=2; Domain=.a.com", ".a.com">>}

\* C26: the record parsed from a header without a Domain attribute, and
\* stored, has the hostname of the url as its domain, with no leading dot;
\* the record parsed from a header with Domain=v has the domain v when v
\* starts with "." and "." followed by v otherwise, so exactly one
\* leading dot.
C26_DomainNormalization ==
  [][/\ \A case \in HostOnlyCases :
          StorePut("personal", Parsed[now][<<case[1], case[2]>>])
          => \E c \in Range(getSessionCookies(sessionCookies', "personal")) :
               /\ c = Parsed[now][<<case[1], case[2]>>]
               /\ c.domain = case[3]
               /\ SubSeq(c.domain, 1, 1) # "."
     /\ \A case \in DomainCases, u \in StoreUrls :
          StorePut("personal", Parsed[now][<<case[1], u>>])
          => \E c \in Range(getSessionCookies(sessionCookies', "personal")) :
               /\ c = Parsed[now][<<case[1], u>>]
               /\ c.domain = IF SubSeq(case[2], 1, 1) = "." THEN case[2]
                              ELSE "." \o case[2]
               /\ SubSeq(c.domain, 1, 1) = "."
               /\ SubSeq(c.domain, 2, 2) # "."]_vars

\* the jar holds a host-only record of "b.a.com" and a record of ".a.com"
\* parsed from a Domain attribute
C26_Witness ==
  /\ Has(sessionCookies, "personal")
  /\ \E c, d \in Range(sessionCookies["personal"]) :
       /\ c.name = "sid" /\ c.domain = "b.a.com"
       /\ d.name = "tok" /\ d.domain = ".a.com"

\* headers with an unparsable Expires or Max-Age value, and the same
\* headers without the offending attribute
MalformedCases ==
  {<<"bad=1; Expires=never", "bad=1">>,
   <<"bad=1; Max-Age=soon", "bad=1">>,
   <<"bad=1; Max-Age=2; Expires=never", "bad=1; Max-Age=2">>,
   <<"bad=1; Expires=Thu, 01 Jan 1970 00:01:00 GMT; Max-Age=soon",
     "bad=1; Expires=Thu, 01 Jan 1970 00:01:00 GMT">>}

\* the same number of seconds, or no number on either side (an
\* expirationDate that is no number is read as unset by every reader)
SameExpiry(e1, e2) ==
  IF e1.t = "number" THEN e2.t = "number" /\ e1.n = e2.n
  ELSE e2.t # "number"

\* C27: the record parsed from a header with an unparsable Expires or
\* Max-Age value, and stored, is a record with the name and value of the
\* header whose expirationDate is that of the record parsed from the
\* header without the offending attribute: an earlier valid Expires or
\* Max-Age keeps its effect, and without one the expiration is unset.
C27_MalformedExpiryIgnored ==
  [][\A case \in MalformedCases, u \in StoreUrls :
       StorePut("personal", Parsed[now][<<case[1], u>>])
       => \E c \in Range(getSessionCookies(sessionCookies', "personal")) :
            /\ c = Parsed[now][<<case[1], u>>]
            /\ c.name = "bad" /\ c.value = "1"
            /\ SameExpiry(c.expirationDate,
                          Parsed[now][<<case[2], u>>].expirationDate)]_vars

\* C28: deleteSession('default') makes Storage.deleteSession return false
\* before any storage access (the handler goes straight to
\* updateContextMenus), and neither its start nor its loop over the tab
\* cache changes the sessions list, the sessionCookies table, persisted
\* tabSessions, the tab cache or the installed rules.
C28_DefaultIsNeverDeleted ==
  [][/\ DeleteSession("default")
        => UNCHANGED <<sessions, sessionCookies, tabSessions, tabCache,
                       sessionRules>>
     /\ \A self \in InFlight :
          (self.kind = "deleteSession" /\ self.sessionId = "default")
          => /\ self.pc = "ds_menus"
             /\ DeleteSessionUpdateTabs(self)
                => /\ UNCHANGED <<sessions, sessionCookies, tabSessions,
                                  tabCache, sessionRules>>
                   /\ tasks' = Without(self)]_vars

\* deleteSession('default') is about to run its loop over the tab cache
\* while a tab is bound to 'personal' with its rules installed
C28_Witness ==
  /\ \E self \in InFlight :
       /\ self.kind = "deleteSession"
       /\ self.sessionId = "default"
       /\ self.pc = "ds_menus"
  /\ Has(tabCache, 1)
  /\ tabCache[1].sessionId = "personal"
  /\ Cardinality(IdsOfTab(1)) = 2
  /\ Has(tabSessions, 1)
  /\ tabSessions[1].sessionId = "personal"

\* the binding of tab t has been written to storage by a handler that
\* has finished: every tab opened after the start is written by onCreated,
\* and the first tab once an install has bound it
HasBeenWritten(t) ==
  /\ Has(tabCache, t)
  /\ \/ t \notin InitialTabs
     \/ tabCache[t] # CacheInfo("default", <<>>, {})

\* C29: with at most one handler per tab at a time, whenever no handler is
\* running, persisted tabSessions has an entry for every tab whose cache
\* binding has been written and for no other tab, and the sessionId and
\* ruleIds of each entry are those of the cache binding.
C29_CacheAndMirrorAgreeAtRest ==
  tasks = EmptyBag
  => /\ \A t \in Tabs : HasBeenWritten(t) => Has(tabSessions, t)
     /\ \A t \in DOMAIN tabSessions :
          /\ Has(tabCache, t)
          /\ tabSessions[t].sessionId = tabCache[t].sessionId
          /\ tabSessions[t].ruleIds = tabCache[t].ruleIds

\* C30: for every request of a tab bound to a session s to a host h, the
\* Cookie value that a rule of the engine sets on the request contains no
\* record of s whose stored domain does not match h.
C30_RequestCarriesOwnHostCookiesOnly ==
  \A t \in DOMAIN tabCache, h \in RequestDomains :
    \A r \in sessionRules :
      RuleMatches(r, t, h)
      => \A c \in Range(getSessionCookies(sessionCookies,
                                          tabCache[t].sessionId)) :
           ~domainMatches(h, c.domain)
           => ~SetsCookiePair(r, c.name \o "=" \o c.value)

\* C31: when the response of a request that left under a session A other
\* than 'default' arrives, every Storage.setSessionCookie call the
\* listener starts stores into the jar of A, whatever the tab has been
\* switched to since.
C31_CapturedCookieStoredInRequestSession ==
  [][\A self \in InFlight, h \in Responses :
       (ResponseArrives(self, h) /\ self.sessionId # "default")
       => \A x \in BagToSet(tasks') \ InFlight :
            x.kind = "capture" => x.jar = self.sessionId]_vars

\* C32: the request rule createRulesForTab adds for the header value v
\* that buildCookieHeader yields holds the Cookie 'remove' operation and
\* nothing else when v is the empty string, and 'remove' followed by one
\* 'set' with value v otherwise.
C32_EmptyHeaderSetsNoCookie ==
  [][\A self \in InFlight :
       AddRules(self)
       => LET v == buildCookieHeader(sessionCookies, self.sessionId,
                                     Hostname(self.url), now)
          IN \E r \in AddedRules :
               /\ r.id = self.nextId
               /\ r.requestHeaders[1] =
                    [header |-> "Cookie", operation |-> "remove", value |-> ""]
               /\ IF v = ""
                  THEN Len(r.requestHeaders) = 1
                  ELSE /\ Len(r.requestHeaders) = 2
                       /\ r.requestHeaders[2] =
                            [header |-> "Cookie", operation |-> "set",
                             value |-> v]]_vars

\* 'personal' holds a cookie, and the tab, now bound to 'work' whose jar
\* holds none, has a request rule that only removes the Cookie header
C32_Witness ==
  /\ tasks = EmptyBag
  /\ Len(getSessionCookies(sessionCookies, "personal")) > 0
  /\ getSessionCookies(sessionCookies, "work") = <<>>
  /\ Has(tabCache, 1)
  /\ tabCache[1].sessionId = "work"
  /\ \E r \in RulesOfTab(1) :
       r.requestHeaders =
         <<[header |-> "Cookie", operation |-> "remove", value |-> ""]>>

\* headers and the sameSite value their record is to have
SameSiteCases ==
  {<<"sid=1", "Lax">>, <<"sid=1; SameSite=Strict", "Strict">>,
   <<"sid=1; SameSite=None", "None">>, <<"sid=1; SameSite=Lax", "Lax">>,
   <<"sid=1; SameSite", "Lax">>, <<"sid=1; SameSite=", "Lax">>,
   <<"sid=1; SameSite=bogus", "Lax">>}

\* C33: the record parsed from a Set-Cookie header, and stored, has
\* sameSite 'Strict', 'Lax' or 'None': the value of the SameSite attribute
\* when it is one of the three, and 'Lax' when the attribute or its value
\* is missing or the value is none of the three.
C33_SameSiteIsOneOfThree ==
  [][\A case \in SameSiteCases, s \in StoreSessions, u \in StoreUrls :
       StorePut(s, ParsedSameSite[<<case[1], u>>])
       => \E c \in Range(getSessionCookies(sessionCookies', s)) :
            /\ c = ParsedSameSite[<<case[1], u>>]
            /\ c.sameSite \in {"Strict", "Lax", "None"}
            /\ c.sameSite = case[2]]_vars

\* C34: whenever no handler is running, also after the tab cache has been
\* rebuilt at startup, the ruleIds of each cache binding are the ruleIds
\* persisted for the tab, and every rule of the engine that is scoped to
\* the tab has its id in the tab's cache binding.
C34_RulesSurviveCacheRebuild ==
  tasks = EmptyBag
  => \A t \in DOMAIN tabCache :
       /\ Has(tabSessions, t)
          => tabCache[t].ruleIds = tabSessions[t].ruleIds
       /\ IdsOfTab(t) \subseteq Range(tabCache[t].ruleIds)

=============================================================================
